---- MODULE Spec2Model ----
(***************************************************************************)
(* StockPulse analyst-prediction pipeline: snapshot capture, outcome       *)
(* evaluation, score recomputation and the SQLAlchemy session they run on. *)
(* Every stage run is one action: it opens a session, runs to its return   *)
(* or to the exception that leaves it, and its caller closes the session.  *)
(*                                                                         *)
(* Floats are modelled as exact rationals <<n, d>> (d > 0, lowest terms),  *)
(* prices as non-negative integers, dates as day numbers, nullable columns *)
(* as sequences of length <= 1 (None = <<>>, a value x = <<x>>).           *)
(* The session is created with autoflush=False (app/database.py:21):       *)
(* objects added with db.add stay pending and invisible to queries until   *)
(* commit; rollback drops every pending object and every unflushed change  *)
(* of the whole session.                                                   *)
(* Columns no stage branches on (analyst_name, action, rating, source,     *)
(* target_low/median/high, analyst_count, consensus_rating, last_updated)   *)
(* are left out.                                                           *)
(***************************************************************************)
EXTENDS Integers, Sequences, FiniteSets, TLC

\* ---------------------------------------------------------------- bounds
MaxRuns == 4

MaxPrice == 2

MaxRatings == 1

MaxDay == 0

MaxSnapshots == 5

MaxRawRows == 3

MaxFires == 2

MaxGrid == 2

\* the days of daily captures behind the stores the queries are asked on
MaxHistory == 5

\* the weekdays the cron cycle is followed over, after the first
MaxDays == 2

\* ------------------------------------------------------ program constants
HorizonDays == 365

\* ScoreConfig.min_predictions
MinPredictions == 5

\* ------------------------------------------------------- nullable values
None == <<>>

Some(x) == <<x>>

Val(o) == o[1]

\* ------------------------------------------------------------- rationals
Abs(n) == IF n < 0 THEN 0 - n ELSE n

RECURSIVE Gcd(_, _)
Gcd(a, b) == IF b = 0 THEN a ELSE Gcd(b, a % b)

\* the quotient n / d of two integers, d # 0, in lowest terms
Rat(n, d) ==
    LET g == Gcd(Abs(n), Abs(d))
        s == IF d < 0 THEN 0 - 1 ELSE 1
    IN  <<(s * n) \div g, (s * d) \div g>>

RatAdd(x, y) == Rat(x[1] * y[2] + y[1] * x[2], x[2] * y[2])

RatSub(x, y) == Rat(x[1] * y[2] - y[1] * x[2], x[2] * y[2])

RatMul(x, y) == Rat(x[1] * y[1], x[2] * y[2])

RatAbs(x) == <<Abs(x[1]), x[2]>>

RatLess(x, y) == x[1] * y[2] < y[1] * x[2]

RatZero == <<0, 1>>

RatOne == <<1, 1>>

RECURSIVE RatSum(_)
RatSum(xs) == IF xs = <<>> THEN RatZero ELSE RatAdd(Head(xs), RatSum(Tail(xs)))

\* ------------------------------------------------------- string helpers
\* str.upper() on the ticker strings of the model
Upper(s) ==
    CASE s = "aapl" -> "AAPL"
      [] s = "msft" -> "MSFT"
      [] OTHER -> s

\* str.strip() on the strings of the model
Strip(s) ==
    CASE s = " GS" -> "GS"
      [] s = " aapl" -> "aapl"
      [] s = "  " -> ""
      [] s = " TECHNOLOGY" -> "TECHNOLOGY"
      [] OTHER -> s

\* str.casefold() on the firm names of the model
Casefold(s) ==
    CASE s = "GS" -> "gs"
      [] s = "UBS" -> "ubs"
      [] OTHER -> s

\* sorted() over ticker symbols: the symbols of the model in ascending order
TickerOrder == <<"AAPL", "AMZN", "GOOG", "MSFT", "NVDA", "TSLA">>

DigitChars == <<"0", "1", "2", "3", "4", "5", "6", "7", "8", "9">>

IsDigit(c) == \E i \in 1..10 : DigitChars[i] = c

DigitValue(c) == (CHOOSE i \in 1..10 : DigitChars[i] = c) - 1

RECURSIVE StripLeft(_)
StripLeft(t) == IF t # <<>> /\ Head(t) = " " THEN StripLeft(Tail(t)) ELSE t

RECURSIVE StripRight(_)
StripRight(t) ==
    IF t # <<>> /\ t[Len(t)] = " " THEN StripRight(SubSeq(t, 1, Len(t) - 1)) ELSE t

RECURSIVE ParseDigits(_, _)
ParseDigits(t, acc) ==
    IF t = <<>> THEN acc ELSE ParseDigits(Tail(t), 10 * acc + DigitValue(Head(t)))

\* _to_float: a raw value is None or a string given as its sequence of
\* characters; "$" and "," are removed, blanks stripped, and the rest is
\* parsed as a number (None when it is empty or not a number).
to_float(value) ==
    IF value = None THEN None
    ELSE LET chars == SelectSeq(Val(value), LAMBDA c : c # "$" /\ c # ",")
             text == StripRight(StripLeft(chars))
         IN  IF text = <<>> THEN None
             ELSE IF \A i \in 1..Len(text) : IsDigit(text[i])
                  THEN Some(ParseDigits(text, 0))
                  ELSE None

\* ---------------------------------------------------------- scoring policy
compute_predicted_return(price_target, current_price) ==
    IF price_target = None \/ current_price = 0 THEN RatZero
    ELSE Rat(Val(price_target) - current_price, current_price)

compute_actual_return(actual_price, current_price) ==
    IF current_price = 0 THEN RatZero
    ELSE Rat(actual_price - current_price, current_price)

\* the comparison taking a zero return for a positive one
is_directionally_correct_zero_positive(predicted_return, actual_return) ==
    \/ (predicted_return[1] >= 0 /\ actual_return[1] >= 0)
    \/ (predicted_return[1] < 0 /\ actual_return[1] < 0)

is_directionally_correct(predicted_return, actual_return) ==
    \/ (predicted_return[1] > 0 /\ actual_return[1] > 0)
    \/ (predicted_return[1] < 0 /\ actual_return[1] < 0)
    \/ (predicted_return[1] = 0 /\ actual_return[1] = 0)

\* --------------------------------------------------------------- the rows
\* AnalystSnapshot(...) as capture constructs it; the outcome columns take
\* their column defaults
AnalystSnapshot(ticker, snapshot_date, firm, price_target, current_price, implied_return, target_date) ==
    [ticker |-> ticker, snapshot_date |-> snapshot_date, firm |-> firm,
     price_target |-> price_target, current_price |-> current_price,
     implied_return |-> implied_return, target_date |-> target_date,
     actual_price_at_target |-> None, actual_return |-> None,
     prediction_error |-> None, is_directionally_correct |-> None,
     is_backfilled |-> FALSE, is_unresolvable |-> FALSE]

ConsensusSnapshot(ticker, snapshot_date, target_avg, current_price, implied_upside, target_date) ==
    [ticker |-> ticker, snapshot_date |-> snapshot_date,
     target_avg |-> target_avg, current_price |-> current_price,
     implied_upside |-> implied_upside, target_date |-> target_date,
     actual_price_at_target |-> None, consensus_was_correct |-> None]

\* AnalystScore(...) as _build_score constructs it
AnalystScore(firm, ticker, total_predictions, success_rate, avg_return_error, avg_absolute_error, directional_accuracy, composite, best_call_ticker, worst_call_ticker) ==
    [firm |-> firm, ticker |-> ticker, total_predictions |-> total_predictions,
     success_rate |-> success_rate, avg_return_error |-> avg_return_error,
     avg_absolute_error |-> avg_absolute_error,
     directional_accuracy |-> directional_accuracy, composite_score |-> composite,
     best_call_ticker |-> best_call_ticker, worst_call_ticker |-> worst_call_ticker]

VARIABLES
    position_tickers,     \* Position.ticker column
    watchlist_tickers,    \* WatchlistItem.ticker column
    analyst_snapshots,    \* committed analyst_snapshots table, in id order
    consensus_snapshots,  \* committed consensus_snapshots table, in id order
    analyst_scores,       \* committed analyst_scores table, in id order
    result,               \* what the last stage run returned or raised
    runs,                 \* number of stage runs so far
    io,                   \* the provider calls of the last stage run
    deployment,           \* the providers' possible answers, the evaluation dates
    scheduler,            \* per scheduled job: due fire times, instances in flight
    args,                 \* the arguments of the static-method call under way
    clock,                \* the day, its cron fire times passed, each job's last start
    sessions              \* the open transactions: concurrent captures, the recompute

vars == <<runs, io, position_tickers, watchlist_tickers, analyst_snapshots,
          consensus_snapshots, analyst_scores, result, deployment,
          scheduler, args, clock, sessions>>

\* ------------------------------------------------------------ the session
\* a session with nothing pending: its objects are the committed rows
CleanSession(analyst, consensus) ==
    [analyst |-> analyst, consensus |-> consensus,
     new_analyst |-> <<>>, new_consensus |-> <<>>]

\* what a flush of the session writes to the tables
FlushedAnalyst(s) == s.analyst \o s.new_analyst

FlushedConsensus(s) == s.consensus \o s.new_consensus

AnalystKey(r) == <<r.ticker, r.snapshot_date, r.firm>>

ConsensusKey(r) == <<r.ticker, r.snapshot_date>>

\* uq_analyst_snapshot_ticker_date_firm and uq_consensus_snapshot_ticker_date
UniqueConstraintsHold(s) ==
    \A analyst \in {FlushedAnalyst(s)}, consensus \in {FlushedConsensus(s)} :
        /\ \A i, j \in 1..Len(analyst) :
               AnalystKey(analyst[i]) = AnalystKey(analyst[j]) => i = j
        /\ \A i, j \in 1..Len(consensus) :
               ConsensusKey(consensus[i]) = ConsensusKey(consensus[j]) => i = j

\* ---------------------------------------------------------- the repository
\* sorted(set(upper(ticker) of positions and watchlist items, empty dropped))
get_all_tracked_tickers ==
    LET all == position_tickers \o watchlist_tickers
        upper == {Upper(all[i]) : i \in 1..Len(all)} \ {""}
    IN  SelectSeq(TickerOrder, LAMBDA t : t \in upper)

\* the id of the stored row, 0 when the query returns no row; rows pending in
\* the session are not flushed and the SELECT does not see them
get_analyst_snapshot(s, ticker, snapshot_date, firm) ==
    LET hits == {i \in 1..Len(s.analyst) :
                    /\ s.analyst[i].ticker = ticker
                    /\ s.analyst[i].snapshot_date = snapshot_date
                    /\ s.analyst[i].firm = firm}
    IN  IF hits = {} THEN 0 ELSE CHOOSE i \in hits : \A j \in hits : i <= j

get_consensus_snapshot(s, ticker, snapshot_date) ==
    LET hits == {i \in 1..Len(s.consensus) :
                    /\ s.consensus[i].ticker = ticker
                    /\ s.consensus[i].snapshot_date = snapshot_date}
    IN  IF hits = {} THEN 0 ELSE CHOOSE i \in hits : \A j \in hits : i <= j

\* ------------------------------------------------------- provider answers
\* the characters of a price as the providers print it
PriceText(p) == IF p % 2 = 1 THEN <<"$", DigitChars[p + 1]>> ELSE <<DigitChars[p + 1], " ">>

\* a raw value that is not a number
NotANumber == Some(<<"N", "/", "A">>)

\* raw rating rows {firm, analyst_name, price_target}: a firm with a target or
\* with text that is no number, and a row naming its firm in analyst_name only
RawRows(prices) ==
    [firm : {" GS"}, analyst_name : {""},
     price_target : {NotANumber} \cup {Some(PriceText(p)) : p \in prices}]
        \cup {[firm |-> "", analyst_name |-> "UBS", price_target |-> Some(PriceText(1))]}

RECURSIVE SeqsUpTo(_, _)
SeqsUpTo(S, n) ==
    IF n = 0 THEN {<<>>}
    ELSE LET shorter == SeqsUpTo(S, n - 1)
         IN  shorter \cup {Append(q, x) : q \in {r \in shorter : Len(r) = n - 1}, x \in S}

CaptureDates == 0..MaxDay

\* A deployment: what its providers can answer and the dates its stages are
\* run with.  One tracks a single ticker and runs every stage; one tracks two
\* tickers and runs the capture stage only.
FullDeployment ==
    [ratings |-> SeqsUpTo(RawRows({1, MaxPrice}), MaxRatings),
     values |-> {None, Some(PriceText(MaxPrice))},
     current |-> {1}, quoted |-> {None}, actual |-> {MaxPrice},
     capture_dates |-> CaptureDates,
     evaluation_dates |-> {0} \cup {HorizonDays + d : d \in CaptureDates}]

CaptureDeployment ==
    [ratings |-> SeqsUpTo({[firm |-> "GS", analyst_name |-> "",
                            price_target |-> Some(PriceText(1))]}, 1),
     values |-> {Some(PriceText(MaxPrice))},
     current |-> {1, MaxPrice}, quoted |-> {Some(PriceText(MaxPrice))},
     actual |-> {},
     capture_dates |-> {0},
     evaluation_dates |-> {}]

\* a deployment whose one ticker sees every price from 0 to MaxPrice as a
\* target, as the price at capture and as the price at the target date; its
\* store has been filled by two captures and only evaluation runs follow
ReturnsDeployment ==
    [ratings |-> {<<row>> : row \in [firm : {" GS"}, analyst_name : {""},
                                      price_target : {Some(PriceText(p)) : p \in 0..MaxPrice}]
                                       \cup {[firm |-> "", analyst_name |-> "UBS",
                                              price_target |-> Some(PriceText(1))]}},
     values |-> {None}, current |-> 0..MaxPrice, quoted |-> {None},
     actual |-> 0..MaxPrice,
     capture_dates |-> {},
     evaluation_dates |-> {HorizonDays}]

\* a deployment whose store one daily capture of up to MaxSnapshots tracked
\* tickers and one evaluation a year later have filled; its rating provider
\* now answers a firm without a usable target, and only recompute runs and
\* single-symbol captures follow
ScoresDeployment ==
    [ratings |-> SeqsUpTo({[firm |-> " GS", analyst_name |-> "",
                            price_target |-> NotANumber]}, 1),
     values |-> {None}, current |-> {1}, quoted |-> {None},
     actual |-> 1..MaxPrice,
     capture_dates |-> {0},
     evaluation_dates |-> {}]

\* a deployment that runs the daily capture on day 0 and the nightly pipeline
\* a year later, when the rows of day 0 are due
NightlyDeployment ==
    [ratings |-> SeqsUpTo({[firm |-> " GS", analyst_name |-> "",
                            price_target |-> Some(PriceText(1))]}, 1),
     values |-> {None}, current |-> {1}, quoted |-> {None},
     actual |-> {1, MaxPrice},
     capture_dates |-> {0},
     evaluation_dates |-> {HorizonDays}]

\* raw rating rows that spell one firm in three ways, with no target, with
\* text that is no number and with two different targets, and a row naming
\* another firm in analyst_name only
DuplicateRows ==
    {[firm |-> "GS", analyst_name |-> "", price_target |-> None],
     [firm |-> "gs", analyst_name |-> "", price_target |-> Some(PriceText(1))],
     [firm |-> " GS", analyst_name |-> "", price_target |-> NotANumber],
     [firm |-> "GS", analyst_name |-> "", price_target |-> Some(PriceText(MaxPrice))],
     [firm |-> "", analyst_name |-> "UBS", price_target |-> None]}

\* a deployment whose rating provider answers the same list of raw rows for
\* its one ticker every time; only single-symbol captures run
DedupeDeployment(ratings) ==
    [ratings |-> {ratings}, values |-> {None}, current |-> {1}, quoted |-> {None},
     actual |-> {},
     capture_dates |-> {0},
     evaluation_dates |-> {}]

\* ------------------------------------------------------- capture sub-steps
KeyIndex(acc, key) ==
    LET hits == {i \in 1..Len(acc) : acc[i].key = key}
    IN  IF hits = {} THEN 0 ELSE CHOOSE i \in hits : TRUE

\* deduped_rows keeping the first row of every firm, whatever its target
RECURSIVE DedupeRowsKeepsFirst(_, _)
DedupeRowsKeepsFirst(ratings, acc) ==
    IF ratings = <<>> THEN acc
    ELSE LET row == Head(ratings)
             firm == Strip(IF row.firm # "" THEN row.firm ELSE row.analyst_name)
             key == Casefold(firm)
             entry == [key |-> key, firm |-> firm, price_target |-> row.price_target]
         IN  DedupeRowsKeepsFirst(Tail(ratings),
                                  IF firm = "" \/ KeyIndex(acc, key) # 0 THEN acc
                                  ELSE Append(acc, entry))

\* the deduped_rows dict of _snapshot_analyst_ratings, in insertion order
RECURSIVE DedupeRows(_, _)
DedupeRows(ratings, acc) ==
    IF ratings = <<>> THEN acc
    ELSE LET row == Head(ratings)
             firm == Strip(IF row.firm # "" THEN row.firm ELSE row.analyst_name)
             key == Casefold(firm)
             pos == KeyIndex(acc, key)
             entry == [key |-> key, firm |-> firm, price_target |-> row.price_target]
             next == IF firm = "" THEN acc
                     ELSE IF pos = 0 THEN Append(acc, entry)
                     ELSE IF to_float(acc[pos].price_target) = None
                             /\ to_float(row.price_target) # None
                          THEN [acc EXCEPT ![pos] = entry]
                          ELSE acc
         IN  DedupeRows(Tail(ratings), next)

\* the upsert loop of _snapshot_analyst_ratings over the deduplicated rows
RECURSIVE UpsertRatings(_, _, _, _, _)
UpsertRatings(s, rows, ticker, snapshot_date, current_price) ==
    IF rows = <<>> THEN s
    ELSE LET row == Head(rows)
             firm == IF row.firm # "" THEN row.firm ELSE "Unknown"
             existing == get_analyst_snapshot(s, ticker, snapshot_date, firm)
             price_target == to_float(row.price_target)
             implied_return == IF price_target # None
                               THEN Some(compute_predicted_return(price_target, current_price))
                               ELSE None
             target_date == snapshot_date + HorizonDays
             next == IF existing # 0
                     THEN [s EXCEPT !.analyst[existing].price_target = price_target,
                                    !.analyst[existing].current_price = current_price,
                                    !.analyst[existing].implied_return = implied_return,
                                    !.analyst[existing].target_date = target_date]
                     ELSE [s EXCEPT !.new_analyst =
                               Append(@, AnalystSnapshot(ticker, snapshot_date, firm, price_target,
                                                         current_price, implied_return, target_date))]
         IN  UpsertRatings(next, Tail(rows), ticker, snapshot_date, current_price)

\* _snapshot_analyst_ratings once both provider calls have answered
snapshot_analyst_ratings(s, ticker, snapshot_date, ratings, current_price) ==
    UpsertRatings(s, DedupeRows(ratings, <<>>), ticker, snapshot_date, current_price)

\* _snapshot_consensus once the provider calls have answered; fallback_price is
\* what get_current_price returns when the targets carry no current price
snapshot_consensus(s, ticker, snapshot_date, targets, fallback_price) ==
    LET parsed == to_float(targets.current)
        current_price == IF parsed = None THEN fallback_price ELSE Val(parsed)
        target_avg == to_float(targets.avg)
        implied_upside == IF target_avg # None
                          THEN Some(compute_predicted_return(target_avg, current_price))
                          ELSE None
        existing == get_consensus_snapshot(s, ticker, snapshot_date)
    IN  IF existing # 0
        THEN [s EXCEPT !.consensus[existing].target_avg = target_avg,
                       !.consensus[existing].current_price = current_price,
                       !.consensus[existing].implied_upside = implied_upside,
                       !.consensus[existing].target_date = snapshot_date + HorizonDays]
        ELSE [s EXCEPT !.new_consensus =
                  Append(@, ConsensusSnapshot(ticker, snapshot_date, target_avg, current_price,
                                              implied_upside, snapshot_date + HorizonDays))]

\* --------------------------------------------------------- stage plumbing
\* the log of the provider calls of one stage run
NoIO == [op |-> "none", date |-> 0, attempted |-> <<>>, captured |-> <<>>,
         requested |-> {}, prices |-> {}, deleted |-> 0, input |-> "",
         query |-> [sector |-> None, symbol |-> None, profiles |-> <<>>]]

Returned(op, value) == [op |-> op, status |-> "returned", value |-> value]

Raised(op) == [op |-> op, status |-> "raised", value |-> <<>>]

\* raw symbols passed to run_snapshot_for_symbol
RawSymbols == {" aapl", "  "}

\* db.commit() flushes the session's rows; the flush fails when a unique
\* constraint is violated
Commits(s) == UniqueConstraintsHold(s)

CommitSession(s) ==
    /\ analyst_snapshots' = FlushedAnalyst(s)
    /\ consensus_snapshots' = FlushedConsensus(s)

\* a rollback that empties the tables the session has loaded
RollbackDropsLoadedRows(s) == CleanSession(<<>>, <<>>)

\* db.rollback() on session s: every pending object is expunged and every
\* changed object reloaded, whichever step of the stage wrote it
Rollback(s) == CleanSession(analyst_snapshots, consensus_snapshots)

\* --------------------------------------------- the capture of one ticker
\* how the calls of one ticker's capture go: every call answers, or
\* get_analyst_ratings / get_current_price raises a recoverable error, or
\* get_consensus_targets / the fallback get_current_price (in
\* run_snapshot_for_symbol also the commit) raises one after
\* _snapshot_analyst_ratings has written the ticker's rows to the session
ProviderAnswers ==
    LET ratings_set == deployment.ratings
        lowest == CHOOSE p \in deployment.current : \A q \in deployment.current : p <= q
    IN  {a \in [kind : {"ok"}, ratings : ratings_set, current_price : deployment.current,
                avg : deployment.values, current : deployment.quoted,
                fallback_price : deployment.current] :
            \* get_current_price is only called when the targets carry no price
            a.current # None => a.fallback_price = lowest}
        \cup [kind : {"consensus_fails"}, ratings : ratings_set,
              current_price : deployment.current]
        \cup {[kind |-> "ratings_fail"]}

\* the try block without its second sub-step
capture_ticker_without_consensus(s, ticker, snapshot_date, a) ==
    IF a.kind = "ratings_fail" THEN [raised |-> TRUE, s |-> s]
    ELSE [raised |-> a.kind = "consensus_fails",
          s |-> snapshot_analyst_ratings(s, ticker, snapshot_date, a.ratings,
                                         a.current_price)]

\* the two awaited sub-steps of the try block (run_daily_snapshot lines 48-49,
\* run_snapshot_for_symbol lines 69-70) on session s
capture_ticker(s, ticker, snapshot_date, a) ==
    IF a.kind = "ratings_fail" THEN [raised |-> TRUE, s |-> s]
    ELSE LET s1 == snapshot_analyst_ratings(s, ticker, snapshot_date, a.ratings,
                                            a.current_price)
         IN  IF a.kind = "consensus_fails" THEN [raised |-> TRUE, s |-> s1]
             ELSE [raised |-> FALSE,
                   s |-> snapshot_consensus(s1, ticker, snapshot_date,
                                            [avg |-> a.avg, current |-> a.current],
                                            a.fallback_price)]

\* what a capture that answered asked the session to hold for the ticker
CaptureLog(ticker, a) ==
    LET rows == DedupeRows(a.ratings, <<>>)
        parsed == to_float(a.current)
    IN  [ticker |-> ticker,
         ratings |-> a.ratings,
         rows |-> [i \in 1..Len(rows) |->
                      [firm |-> rows[i].firm, price_target |-> to_float(rows[i].price_target)]],
         current_price |-> a.current_price,
         target_avg |-> to_float(a.avg),
         consensus_price |-> IF parsed = None THEN a.fallback_price ELSE Val(parsed)]

\* ------------------------------------------------------ run_daily_snapshot
\* lines 44-54: the loop over the tracked tickers; st holds the session, the
\* counters and the log
\* the loop leaving at the first ticker that raises
RECURSIVE DailyLoopStopsAtFailure(_, _, _, _)
DailyLoopStopsAtFailure(st, tickers, snapshot_date, answers) ==
    IF Len(st.attempted) = Len(tickers) THEN st
    ELSE LET i == Len(st.attempted) + 1
             ticker == tickers[i]
             step == capture_ticker(st.s, ticker, snapshot_date, answers[i])
         IN  IF step.raised
             THEN [st EXCEPT !.s = Rollback(step.s), !.failed = @ + 1,
                             !.attempted = Append(@, ticker)]
             ELSE DailyLoopStopsAtFailure(
                      [st EXCEPT !.s = step.s, !.ok = @ + 1,
                                 !.attempted = Append(@, ticker),
                                 !.captured = Append(@, CaptureLog(ticker, answers[i]))],
                      tickers, snapshot_date, answers)

RECURSIVE DailyLoop(_, _, _, _)
DailyLoop(st, tickers, snapshot_date, answers) ==
    IF Len(st.attempted) = Len(tickers) THEN st
    ELSE LET i == Len(st.attempted) + 1
             ticker == tickers[i]
             step == capture_ticker(st.s, ticker, snapshot_date, answers[i])
             next == IF step.raised
                     THEN [st EXCEPT !.s = Rollback(step.s), !.failed = @ + 1,
                                     !.attempted = Append(@, ticker)]
                     ELSE [st EXCEPT !.s = step.s, !.ok = @ + 1,
                                     !.attempted = Append(@, ticker),
                                     !.captured = Append(@, CaptureLog(ticker, answers[i]))]
         IN  DailyLoop(next, tickers, snapshot_date, answers)

\* lines 41-56 once the tracked-ticker query has answered
run_daily_snapshot(run_date) ==
    /\ runs < MaxRuns
    /\ runs' = runs + 1
    /\ UNCHANGED <<position_tickers, watchlist_tickers, deployment,
                   scheduler, args, clock, sessions, analyst_scores>>
    /\ LET tickers == get_all_tracked_tickers
       IN  \E answers \in [1..Len(tickers) -> ProviderAnswers] :
             \E st \in {DailyLoop([s |-> CleanSession(analyst_snapshots,
                                                       consensus_snapshots),
                                    ok |-> 0, failed |-> 0, attempted |-> <<>>,
                                    captured |-> <<>>],
                                   tickers, run_date, answers)} :
                 /\ io' = [NoIO EXCEPT !.op = "run_daily_snapshot", !.date = run_date,
                                       !.attempted = st.attempted,
                                       !.captured = st.captured]
                 /\ IF Commits(st.s)
                    THEN /\ CommitSession(st.s)
                         /\ result' = Returned("run_daily_snapshot",
                                               [tracked |-> Len(tickers), ok |-> st.ok,
                                                failed |-> st.failed])
                    ELSE /\ result' = Raised("run_daily_snapshot")
                         /\ UNCHANGED <<analyst_snapshots, consensus_snapshots>>

\* line 43: the tracked-ticker query raises SQLAlchemyError, or line 55: the
\* loop has attempted every ticker and the commit raises it
run_daily_snapshot_db_fails(run_date) ==
    /\ runs < MaxRuns
    /\ runs' = runs + 1
    /\ \E attempted \in {<<>>, get_all_tracked_tickers} :
          io' = [NoIO EXCEPT !.op = "run_daily_snapshot", !.date = run_date,
                             !.attempted = attempted]
    /\ result' = Raised("run_daily_snapshot")
    /\ UNCHANGED <<position_tickers, watchlist_tickers, deployment,
                   scheduler, args, clock, sessions, analyst_scores,
                   analyst_snapshots, consensus_snapshots>>

\* ------------------------------------------------- run_snapshot_for_symbol
\* lines 58-76
run_snapshot_for_symbol(ticker, run_date) ==
    /\ runs < MaxRuns
    /\ runs' = runs + 1
    /\ UNCHANGED <<position_tickers, watchlist_tickers, deployment,
                   scheduler, args, clock, sessions, analyst_scores>>
    /\ LET symbol == Upper(Strip(ticker))
           log == [NoIO EXCEPT !.op = "run_snapshot_for_symbol", !.date = run_date,
                               !.input = ticker]
       IN  IF symbol = ""
           THEN /\ result' = Returned("run_snapshot_for_symbol",
                                      [tracked |-> 0, ok |-> 0, failed |-> 1, ticker |-> ""])
                /\ io' = log
                /\ UNCHANGED <<analyst_snapshots, consensus_snapshots>>
           ELSE \E a \in ProviderAnswers :
                  \E step \in {capture_ticker(
                                   CleanSession(analyst_snapshots, consensus_snapshots),
                                   symbol, run_date, a)} :
                      IF ~step.raised /\ Commits(step.s)
                      THEN /\ CommitSession(step.s)
                           /\ io' = [log EXCEPT !.attempted = <<symbol>>,
                                                !.captured = <<CaptureLog(symbol, a)>>]
                           /\ result' = Returned("run_snapshot_for_symbol",
                                                 [tracked |-> 1, ok |-> 1, failed |-> 0,
                                                  ticker |-> symbol])
                      ELSE /\ UNCHANGED <<analyst_snapshots, consensus_snapshots>>
                           /\ io' = [log EXCEPT !.attempted = <<symbol>>]
                           /\ result' = Returned("run_snapshot_for_symbol",
                                                 [tracked |-> 1, ok |-> 0, failed |-> 1,
                                                  ticker |-> symbol])

\* ------------------------------------------- evaluate_expired_predictions
SelectIds(table, Test(_)) ==
    SelectSeq([i \in 1..Len(table) |-> i], LAMBDA i : Test(table[i]))

\* the pending query without its is_unresolvable condition
list_pending_with_unresolvable(table, reference_date) ==
    SelectIds(table, LAMBDA r : /\ r.target_date <= reference_date
                                /\ r.actual_price_at_target = None
                                /\ r.is_backfilled = FALSE
                                /\ r.price_target # None)

\* the pending query without its actual_price_at_target condition
list_pending_with_resolved(table, reference_date) ==
    SelectIds(table, LAMBDA r : /\ r.target_date <= reference_date
                                /\ r.is_unresolvable = FALSE
                                /\ r.is_backfilled = FALSE
                                /\ r.price_target # None)

list_pending_analyst_snapshots(table, reference_date) ==
    SelectIds(table, LAMBDA r : /\ r.target_date <= reference_date
                                /\ r.actual_price_at_target = None
                                /\ r.is_unresolvable = FALSE
                                /\ r.is_backfilled = FALSE
                                /\ r.price_target # None)

\* the consensus query without its target_date condition
list_pending_consensus_any_date(table, reference_date) ==
    SelectIds(table, LAMBDA r : r.actual_price_at_target = None)

list_pending_consensus_snapshots(table, reference_date) ==
    SelectIds(table, LAMBDA r : /\ r.target_date <= reference_date
                                /\ r.actual_price_at_target = None)

\* the iteration with the error taken as actual minus predicted return
evaluate_analyst_error_reversed(snapshot, actual) ==
    IF actual = None
    THEN [snapshot EXCEPT !.is_unresolvable = TRUE]
    ELSE LET predicted_return ==
                 compute_predicted_return(snapshot.price_target, snapshot.current_price)
             actual_return == compute_actual_return(Val(actual), snapshot.current_price)
             error == RatSub(actual_return, predicted_return)
         IN  [snapshot EXCEPT !.actual_price_at_target = actual,
                              !.actual_return = Some(actual_return),
                              !.prediction_error = Some(error),
                              !.is_directionally_correct =
                                  Some(is_directionally_correct(predicted_return, actual_return))]

\* the iteration without the assignment of is_directionally_correct
evaluate_analyst_without_flag(snapshot, actual) ==
    IF actual = None
    THEN [snapshot EXCEPT !.is_unresolvable = TRUE]
    ELSE LET predicted_return ==
                 compute_predicted_return(snapshot.price_target, snapshot.current_price)
             actual_return == compute_actual_return(Val(actual), snapshot.current_price)
             error == RatSub(predicted_return, actual_return)
         IN  [snapshot EXCEPT !.actual_price_at_target = actual,
                              !.actual_return = Some(actual_return),
                              !.prediction_error = Some(error)]

\* lines 86-98: one iteration of the loop over the pending analyst rows
evaluate_analyst(snapshot, actual) ==
    IF actual = None
    THEN [snapshot EXCEPT !.is_unresolvable = TRUE]
    ELSE LET predicted_return ==
                 compute_predicted_return(snapshot.price_target, snapshot.current_price)
             actual_return == compute_actual_return(Val(actual), snapshot.current_price)
             error == RatSub(predicted_return, actual_return)
         IN  [snapshot EXCEPT !.actual_price_at_target = actual,
                              !.actual_return = Some(actual_return),
                              !.prediction_error = Some(error),
                              !.is_directionally_correct =
                                  Some(is_directionally_correct(predicted_return, actual_return))]

\* lines 104-110: one iteration of the loop over the pending consensus rows
evaluate_consensus(snapshot, actual) ==
    IF actual = None THEN snapshot
    ELSE IF snapshot.target_avg # None
         THEN LET predicted_return ==
                      compute_predicted_return(snapshot.target_avg, snapshot.current_price)
                  actual_return == compute_actual_return(Val(actual), snapshot.current_price)
              IN  [snapshot EXCEPT !.actual_price_at_target = actual,
                                   !.consensus_was_correct =
                                       Some(is_directionally_correct(predicted_return,
                                                                     actual_return))]
         ELSE [snapshot EXCEPT !.actual_price_at_target = actual]

\* the rows of a table after a loop over the pending ids; answers[k] is what
\* get_price_on_date returned for pending[k]
EvaluateRows(table, pending, answers, evaluate(_, _)) ==
    [i \in 1..Len(table) |->
        IF \E k \in 1..Len(pending) : pending[k] = i
        THEN evaluate(table[i], answers[CHOOSE k \in 1..Len(pending) : pending[k] = i])
        ELSE table[i]]

\* the get_price_on_date calls of a run, in call order
PriceCalls(pending_analyst, pending_consensus) ==
    [k \in 1..Len(pending_analyst) |-> <<"analyst", pending_analyst[k]>>]
        \o [k \in 1..Len(pending_consensus) |-> <<"consensus", pending_consensus[k]>>]

ActualPrices == {None} \cup {Some(p) : p \in deployment.actual}

\* lines 78-113 with every get_price_on_date call answering
evaluate_expired_predictions(today) ==
    /\ runs < MaxRuns
    /\ runs' = runs + 1
    /\ UNCHANGED <<position_tickers, watchlist_tickers, deployment,
                   scheduler, args, clock, sessions, analyst_scores>>
    /\ LET s == CleanSession(analyst_snapshots, consensus_snapshots)
           pending_analyst == list_pending_analyst_snapshots(s.analyst, today)
           pending_consensus == list_pending_consensus_snapshots(s.consensus, today)
           calls == PriceCalls(pending_analyst, pending_consensus)
       IN  \E analyst_prices \in [1..Len(pending_analyst) -> ActualPrices],
              consensus_prices \in [1..Len(pending_consensus) -> ActualPrices] :
             LET resolved == Cardinality({k \in 1..Len(pending_analyst) :
                                             analyst_prices[k] # None})
                 unresolved == Len(pending_analyst) - resolved
                 answers == analyst_prices \o consensus_prices
             IN  \E s2 \in {[s EXCEPT
                               !.analyst = EvaluateRows(@, pending_analyst, analyst_prices,
                                                        evaluate_analyst),
                               !.consensus = EvaluateRows(@, pending_consensus,
                                                          consensus_prices,
                                                          evaluate_consensus)]} :
                 /\ io' = [NoIO EXCEPT
                              !.op = "evaluate_expired_predictions", !.date = today,
                              !.requested = {calls[k] : k \in 1..Len(calls)},
                              !.prices = {<<calls[k], answers[k]>> : k \in 1..Len(calls)}]
                 /\ IF Commits(s2)
                    THEN /\ CommitSession(s2)
                         /\ result' = Returned("evaluate_expired_predictions",
                                               [resolved |-> resolved,
                                                unresolvable |-> unresolved])
                    ELSE /\ result' = Raised("evaluate_expired_predictions")
                         /\ UNCHANGED <<analyst_snapshots, consensus_snapshots>>

\* lines 85 and 103: the k-th get_price_on_date call raises a recoverable
\* error; nothing in the stage catches it and its caller rolls the session back
evaluate_price_raises(today) ==
    /\ runs < MaxRuns
    /\ runs' = runs + 1
    /\ LET calls == PriceCalls(list_pending_analyst_snapshots(analyst_snapshots, today),
                               list_pending_consensus_snapshots(consensus_snapshots, today))
       IN  \E k \in 1..Len(calls) :
             io' = [NoIO EXCEPT !.op = "evaluate_expired_predictions", !.date = today,
                                !.requested = {calls[j] : j \in 1..k}]
    /\ result' = Raised("evaluate_expired_predictions")
    /\ UNCHANGED <<position_tickers, watchlist_tickers, deployment,
                   scheduler, args, clock, sessions, analyst_scores,
                   analyst_snapshots, consensus_snapshots>>

\* lines 80, 100 and 112: a pending query or the commit raises SQLAlchemyError
\* after the first k get_price_on_date calls have answered
evaluate_db_fails(today) ==
    /\ runs < MaxRuns
    /\ runs' = runs + 1
    /\ LET pending_analyst == list_pending_analyst_snapshots(analyst_snapshots, today)
           calls == PriceCalls(pending_analyst,
                               list_pending_consensus_snapshots(consensus_snapshots, today))
       IN  \E k \in {0, Len(pending_analyst), Len(calls)} :
             io' = [NoIO EXCEPT !.op = "evaluate_expired_predictions", !.date = today,
                                !.requested = {calls[j] : j \in 1..k}]
    /\ result' = Raised("evaluate_expired_predictions")
    /\ UNCHANGED <<position_tickers, watchlist_tickers, deployment,
                   scheduler, args, clock, sessions, analyst_scores,
                   analyst_snapshots, consensus_snapshots>>

\* ------------------------------------------------------- recompute_scores
\* the query without its price_target filter
list_resolved_with_null_target(table) ==
    SelectIds(table, LAMBDA r : /\ r.actual_price_at_target # None
                                /\ r.prediction_error # None
                                /\ r.is_unresolvable = FALSE
                                /\ r.is_backfilled = FALSE)

list_resolved_analyst_snapshots(table) ==
    SelectIds(table, LAMBDA r : /\ r.actual_price_at_target # None
                                /\ r.price_target # None
                                /\ r.prediction_error # None
                                /\ r.is_unresolvable = FALSE
                                /\ r.is_backfilled = FALSE)

\* ScoreConfig.success_threshold = 0.10
success_threshold == <<1, 10>>

\* the weighted sum without the clamp
composite_score_unclamped(success_rate, directional_accuracy, avg_absolute_error) ==
    RatAdd(RatAdd(RatMul(<<2, 5>>, success_rate), RatMul(<<3, 10>>, directional_accuracy)),
           RatMul(<<3, 10>>, RatSub(RatOne, avg_absolute_error)))

\* max(0.0, min(1.0, 0.4 * s + 0.3 * d + 0.3 * (1 - e)))
composite_score(success_rate, directional_accuracy, avg_absolute_error) ==
    LET score == RatAdd(RatAdd(RatMul(<<2, 5>>, success_rate),
                               RatMul(<<3, 10>>, directional_accuracy)),
                        RatMul(<<3, 10>>, RatSub(RatOne, avg_absolute_error)))
        capped == IF RatLess(RatOne, score) THEN RatOne ELSE score
    IN  IF RatLess(capped, RatZero) THEN RatZero ELSE capped

\* the comparison counting an error equal to the threshold as a success
is_success_inclusive(error) == ~RatLess(success_threshold, error)

\* line 167: an absolute error counts as a success strictly below the threshold
is_success(error) == RatLess(error, success_threshold)

\* line 149: the group is too small to be scored
below_minimum_inclusive(total) == total <= MinPredictions

below_minimum(total) == total < MinPredictions

\* _build_score over the rows of one group, in query order
build_score(firm, ticker, rows) ==
    LET total == Len(rows)
        raw_errors == [i \in 1..total |->
                          IF rows[i].prediction_error = None THEN RatZero
                          ELSE Val(rows[i].prediction_error)]
        errors == [i \in 1..total |-> RatAbs(raw_errors[i])]
        directional == SelectSeq(rows, LAMBDA r : r.is_directionally_correct # None)
        success_count == Cardinality({i \in 1..total : is_success(errors[i])})
        success_rate == Rat(success_count, total)
        avg_abs_error == RatMul(RatSum(errors), <<1, total>>)
        avg_return_error == RatMul(RatSum(raw_errors), <<1, total>>)
        directional_accuracy ==
            IF directional = <<>> THEN RatZero
            ELSE Rat(Cardinality({i \in 1..Len(directional) :
                                     Val(directional[i].is_directionally_correct)}),
                     Len(directional))
        \* sorted() is stable: the first smallest and the last largest error
        best == CHOOSE i \in 1..total :
                    /\ \A j \in 1..total : ~RatLess(errors[j], errors[i])
                    /\ \A j \in 1..(i - 1) : RatLess(errors[i], errors[j])
        worst == CHOOSE i \in 1..total :
                    /\ \A j \in 1..total : ~RatLess(errors[i], errors[j])
                    /\ \A j \in (i + 1)..total : RatLess(errors[j], errors[i])
    IN  IF below_minimum(total)
        THEN AnalystScore(firm, ticker, total, None, None, None, None, None, None, None)
        ELSE AnalystScore(firm, ticker, total, Some(success_rate), Some(avg_return_error),
                          Some(avg_abs_error), Some(directional_accuracy),
                          Some(composite_score(success_rate, directional_accuracy,
                                               avg_abs_error)),
                          Some(rows[best].ticker), Some(rows[worst].ticker))

\* the keys of a dict filled with setdefault over rows, in insertion order
RECURSIVE GroupKeys(_, _, _)
GroupKeys(rows, Key(_), acc) ==
    IF rows = <<>> THEN acc
    ELSE GroupKeys(Tail(rows), Key,
                   IF \E i \in 1..Len(acc) : acc[i] = Key(Head(rows)) THEN acc
                   ELSE Append(acc, Key(Head(rows))))

\* lines 117-136: the score rows added to the session
ScoreRows(table) ==
    LET ids == list_resolved_analyst_snapshots(table)
        rows == [k \in 1..Len(ids) |-> table[ids[k]]]
        firms == GroupKeys(rows, LAMBDA r : r.firm, <<>>)
        pairs == GroupKeys(rows, LAMBDA r : <<r.firm, r.ticker>>, <<>>)
    IN  [k \in 1..Len(firms) |->
            build_score(firms[k], None, SelectSeq(rows, LAMBDA r : r.firm = firms[k]))]
        \o [k \in 1..Len(pairs) |->
               build_score(pairs[k][1], Some(pairs[k][2]),
                           SelectSeq(rows, LAMBDA r : <<r.firm, r.ticker>> = pairs[k]))]

\* clear_scores removing the per-ticker rows only
clear_scores_keeps_global(table) == SelectSeq(table, LAMBDA r : r.ticker = None)

\* clear_scores: delete(AnalystScore) removes every row of the table
clear_scores(table) == <<>>

\* uq_analyst_scores_firm_ticker; rows whose ticker is NULL never collide
ScoreConstraintHolds(table) ==
    \A i, j \in 1..Len(table) :
        (/\ table[i].ticker # None
         /\ table[i].firm = table[j].firm
         /\ table[i].ticker = table[j].ticker) => i = j

\* lines 115-139: the score table is cleared and rebuilt in one transaction
recompute_scores ==
    /\ runs < MaxRuns
    /\ runs' = runs + 1
    /\ io' = [NoIO EXCEPT !.op = "recompute_scores",
                          !.deleted = Len(analyst_scores)
                                        - Len(clear_scores(analyst_scores))]
    /\ \E cleared \in {clear_scores(analyst_scores)},
          added \in {ScoreRows(analyst_snapshots)} :
          IF ScoreConstraintHolds(cleared \o added)
          THEN /\ analyst_scores' = cleared \o added
               /\ result' = Returned("recompute_scores",
                                     [scores_written |-> Len(added),
                                      source_rows |->
                                          Len(list_resolved_analyst_snapshots(
                                                  analyst_snapshots))])
          ELSE /\ result' = Raised("recompute_scores")
               /\ UNCHANGED analyst_scores
    /\ UNCHANGED <<position_tickers, watchlist_tickers, deployment,
                   scheduler, args, clock, sessions,
                   analyst_snapshots, consensus_snapshots>>

\* lines 116, 117 and 138: the delete, the query or the commit raises
\* SQLAlchemyError and the caller rolls the session back
recompute_db_fails ==
    /\ runs < MaxRuns
    /\ runs' = runs + 1
    /\ result' = Raised("recompute_scores")
    /\ io' = [NoIO EXCEPT !.op = "recompute_scores"]
    /\ UNCHANGED <<position_tickers, watchlist_tickers, deployment,
                   scheduler, args, clock, sessions, analyst_scores,
                   analyst_snapshots, consensus_snapshots>>

\* ---------------------------------------------------- run_nightly_pipeline
\* the session after the evaluation loops over the rows pending at today
AfterEvaluation(s, today, analyst_prices, consensus_prices) ==
    [s EXCEPT !.analyst = EvaluateRows(@, list_pending_analyst_snapshots(s.analyst, today),
                                       analyst_prices, evaluate_analyst),
              !.consensus = EvaluateRows(@, list_pending_consensus_snapshots(s.consensus,
                                                                             today),
                                         consensus_prices, evaluate_consensus)]

\* lines 141-145 with every stage returning: the three stages run on one
\* session with the same run_date, each committing before the next starts
run_nightly_pipeline(run_date) ==
    /\ runs < MaxRuns
    /\ runs' = runs + 1
    /\ UNCHANGED <<position_tickers, watchlist_tickers, deployment,
                   scheduler, args, clock, sessions>>
    /\ LET tickers == get_all_tracked_tickers
       IN  \E answers \in [1..Len(tickers) -> ProviderAnswers] :
             \E st \in {DailyLoop([s |-> CleanSession(analyst_snapshots,
                                                       consensus_snapshots),
                                    ok |-> 0, failed |-> 0, attempted |-> <<>>,
                                    captured |-> <<>>],
                                   tickers, run_date, answers)} :
               \E s1 \in {CleanSession(FlushedAnalyst(st.s), FlushedConsensus(st.s))} :
                 LET pending_analyst == list_pending_analyst_snapshots(s1.analyst, run_date)
                     pending_consensus ==
                         list_pending_consensus_snapshots(s1.consensus, run_date)
                     calls == PriceCalls(pending_analyst, pending_consensus)
                 IN  \E analyst_prices \in [1..Len(pending_analyst) -> ActualPrices],
                        consensus_prices \in [1..Len(pending_consensus) -> ActualPrices] :
                       \E s2 \in {AfterEvaluation(s1, run_date, analyst_prices,
                                                  consensus_prices)} :
                         \E added \in {ScoreRows(s2.analyst)} :
                           LET resolved == Cardinality({k \in 1..Len(pending_analyst) :
                                                           analyst_prices[k] # None})
                               answered == analyst_prices \o consensus_prices
                           IN  /\ Commits(st.s)
                               /\ Commits(s2)
                               /\ ScoreConstraintHolds(clear_scores(analyst_scores) \o added)
                               /\ CommitSession(s2)
                               /\ analyst_scores' = clear_scores(analyst_scores) \o added
                               /\ io' = [NoIO EXCEPT
                                            !.op = "run_nightly_pipeline",
                                            !.date = run_date,
                                            !.attempted = st.attempted,
                                            !.captured = st.captured,
                                            !.requested = {calls[k] : k \in 1..Len(calls)},
                                            !.prices = {<<calls[k], answered[k]>> :
                                                           k \in 1..Len(calls)},
                                            !.deleted = Len(analyst_scores)
                                                - Len(clear_scores(analyst_scores))]
                               /\ result' = Returned("run_nightly_pipeline",
                                      [snapshot |-> [tracked |-> Len(tickers), ok |-> st.ok,
                                                     failed |-> st.failed],
                                       evaluate |-> [resolved |-> resolved,
                                                     unresolvable |->
                                                         Len(pending_analyst) - resolved],
                                       recompute |->
                                           [scores_written |-> Len(added),
                                            source_rows |->
                                                Len(list_resolved_analyst_snapshots(
                                                        s2.analyst))]])

\* lines 142-144: a stage raises and the exception leaves the pipeline; what
\* the earlier stages committed stays, the caller rolls the rest back
run_nightly_pipeline_raises(run_date) ==
    /\ runs < MaxRuns
    /\ runs' = runs + 1
    /\ UNCHANGED <<position_tickers, watchlist_tickers, deployment,
                   scheduler, args, clock, sessions, analyst_scores>>
    /\ result' = Raised("run_nightly_pipeline")
    /\ LET tickers == get_all_tracked_tickers
           log == [NoIO EXCEPT !.op = "run_nightly_pipeline", !.date = run_date]
       IN  \* run_daily_snapshot raises (line 43 or 55)
           \/ /\ \E attempted \in {<<>>, tickers} : io' = [log EXCEPT !.attempted = attempted]
              /\ UNCHANGED <<analyst_snapshots, consensus_snapshots>>
           \* run_daily_snapshot has committed and evaluate_expired_predictions
           \* raises before its commit (lines 80-112)
           \/ \E answers \in [1..Len(tickers) -> ProviderAnswers] :
                \E st \in {DailyLoop([s |-> CleanSession(analyst_snapshots,
                                                          consensus_snapshots),
                                       ok |-> 0, failed |-> 0, attempted |-> <<>>,
                                       captured |-> <<>>],
                                      tickers, run_date, answers)} :
                  /\ Commits(st.s)
                  /\ CommitSession(st.s)
                  /\ LET calls == PriceCalls(
                                      list_pending_analyst_snapshots(FlushedAnalyst(st.s),
                                                                     run_date),
                                      list_pending_consensus_snapshots(
                                          FlushedConsensus(st.s), run_date))
                     IN  \E k \in 0..Len(calls) :
                           io' = [log EXCEPT !.attempted = st.attempted,
                                             !.captured = st.captured,
                                             !.requested = {calls[j] : j \in 1..k}]
           \* both have committed and recompute_scores raises (lines 116-138)
           \/ \E answers \in [1..Len(tickers) -> ProviderAnswers] :
                \E st \in {DailyLoop([s |-> CleanSession(analyst_snapshots,
                                                          consensus_snapshots),
                                       ok |-> 0, failed |-> 0, attempted |-> <<>>,
                                       captured |-> <<>>],
                                      tickers, run_date, answers)} :
                  \E s1 \in {CleanSession(FlushedAnalyst(st.s), FlushedConsensus(st.s))} :
                    LET pending_analyst ==
                            list_pending_analyst_snapshots(s1.analyst, run_date)
                        pending_consensus ==
                            list_pending_consensus_snapshots(s1.consensus, run_date)
                        calls == PriceCalls(pending_analyst, pending_consensus)
                    IN  \E analyst_prices \in [1..Len(pending_analyst) -> ActualPrices],
                           consensus_prices \in [1..Len(pending_consensus) -> ActualPrices] :
                          \E s2 \in {AfterEvaluation(s1, run_date, analyst_prices,
                                                     consensus_prices)} :
                            /\ Commits(st.s)
                            /\ Commits(s2)
                            /\ CommitSession(s2)
                            /\ io' = [log EXCEPT
                                         !.attempted = st.attempted,
                                         !.captured = st.captured,
                                         !.requested = {calls[k] : k \in 1..Len(calls)},
                                         !.prices =
                                             {<<calls[k],
                                                (analyst_prices \o consensus_prices)[k]>> :
                                                 k \in 1..Len(calls)}]
\* --------------------------------------------------------- the scheduler
\* the ids of the jobs _register_jobs adds
JobIds == {"portfolio_watchlist_refresh", "prediction_snapshot", "outcome_evaluation",
           "score_recomputation"}

\* add_job(..., max_instances=1, coalesce=True), the same for the four jobs
max_instances == 1

coalesce == TRUE

\* no fire time due and no instance in flight: the scheduler after start()
SchedulerIdle == [job \in JobIds |-> [due |-> 0, instances |-> <<>>]]

\* a scheduler that submits a job whatever is in flight
accepts_instance_always(instances) == TRUE

\* the executor takes another instance of a job only below max_instances
accepts_instance(instances) == Len(instances) < max_instances

\* a fire time of the job's CronTrigger passes before the scheduler wakes up
fire_time_passes(job) ==
    /\ scheduler[job].due < MaxFires
    /\ scheduler' = [scheduler EXCEPT ![job].due = @ + 1]
    /\ UNCHANGED <<position_tickers, watchlist_tickers, analyst_snapshots,
                   consensus_snapshots, analyst_scores, result, runs, io, deployment,
                   args, clock, sessions>>

\* the scheduler wakes up and handles every job with due fire times: with
\* coalesce the due times collapse into the last one, the wrapped job is
\* submitted as one instance unless max_instances are in flight, and the due
\* times are consumed either way; an instance is the number of run times it
\* was submitted with
process_due_jobs ==
    /\ \E job \in JobIds : scheduler[job].due > 0
    /\ scheduler' =
          [job \in JobIds |->
              IF scheduler[job].due = 0 THEN scheduler[job]
              ELSE [due |-> 0,
                    instances |->
                        IF accepts_instance(scheduler[job].instances)
                        THEN Append(scheduler[job].instances,
                                    IF coalesce THEN 1 ELSE scheduler[job].due)
                        ELSE scheduler[job].instances]]
    /\ UNCHANGED <<position_tickers, watchlist_tickers, analyst_snapshots,
                   consensus_snapshots, analyst_scores, result, runs, io, deployment,
                   args, clock, sessions>>

\* lines 91-103: the wrapped job of an instance in flight has closed its
\* session and returned, and the instance is released; what the job did to
\* the store is the stage run it awaited
wrapped_job_returns(job) ==
    /\ scheduler[job].instances # <<>>
    /\ scheduler' = [scheduler EXCEPT ![job].instances = Tail(@)]
    /\ UNCHANGED <<position_tickers, watchlist_tickers, analyst_snapshots,
                   consensus_snapshots, analyst_scores, result, runs, io, deployment,
                   args, clock, sessions>>

\* ------------------------------------------------- the daily cron cycle
\* the defaults of the three pipeline triggers, Eastern time
prediction_snapshot_hour_et == 18

prediction_evaluation_hour_et == 18

prediction_evaluation_minute_et == 30

prediction_recompute_hour_et == 19

prediction_recompute_minute_et == 0

\* the jobs of the nightly pipeline; the refresh job fires during market hours
PipelineJobs == {"prediction_snapshot", "outcome_evaluation", "score_recomputation"}

\* lines 51-89: the minute of the day of each pipeline job's CronTrigger
FireMinute(job) ==
    CASE job = "prediction_snapshot" -> prediction_snapshot_hour_et * 60
      [] job = "outcome_evaluation" ->
            prediction_evaluation_hour_et * 60 + prediction_evaluation_minute_et
      [] job = "score_recomputation" ->
            prediction_recompute_hour_et * 60 + prediction_recompute_minute_et

\* the pipeline job whose trigger is the k-th to fire in a day
DailyOrder(k) ==
    CHOOSE job \in PipelineJobs :
        Cardinality({other \in PipelineJobs : FireMinute(other) < FireMinute(job)}) = k - 1

\* the first weekday, before any trigger fired; no job has started yet
ClockStart == [day |-> 0, passed |-> 0, started |-> [job \in JobIds |-> -1]]

\* the next trigger of the day reaches its fire time and the scheduler, awake
\* at that time, submits the wrapped job unless max_instances are in flight;
\* nothing but the job's own trigger and its own instances is consulted
cron_fire_time_reached ==
    /\ clock.passed < Cardinality(PipelineJobs)
    /\ LET job == DailyOrder(clock.passed + 1)
           submitted == accepts_instance(scheduler[job].instances)
       IN  /\ scheduler' = [scheduler EXCEPT ![job].instances =
                               IF submitted THEN Append(@, 1) ELSE @]
           /\ clock' = [clock EXCEPT !.passed = @ + 1,
                                     !.started[job] = IF submitted THEN clock.day ELSE @]
    /\ UNCHANGED <<position_tickers, watchlist_tickers, analyst_snapshots,
                   consensus_snapshots, analyst_scores, result, runs, io, deployment,
                   args, sessions>>

\* the day's three triggers have fired and the next weekday begins
next_weekday_begins ==
    /\ clock.passed = Cardinality(PipelineJobs)
    /\ clock.day < MaxDays
    /\ clock' = [clock EXCEPT !.day = @ + 1, !.passed = 0]
    /\ UNCHANGED <<position_tickers, watchlist_tickers, analyst_snapshots,
                   consensus_snapshots, analyst_scores, result, runs, io, deployment,
                   scheduler, args, sessions>>

\* ------------------------------------------------ calls of static methods
NoCall == [function |-> "none"]

\* rates between 0 and 1 in steps of 1 / MaxGrid
GridRates == {Rat(k, MaxGrid) : k \in 0..MaxGrid}

\* errors and returns from -1 to 2 in steps of 1 / MaxGrid, and 10
GridReturns == {Rat(k, MaxGrid) : k \in (0 - MaxGrid)..(2 * MaxGrid)} \cup {<<10, 1>>}

StaticCalls ==
    [function : {"composite_score"}, success_rate : GridRates,
     directional_accuracy : GridRates, avg_absolute_error : GridReturns]
        \cup [function : {"is_directionally_correct"}, predicted_return : GridReturns,
              actual_return : GridReturns]

call_composite_score ==
    /\ args.function = "composite_score"
    /\ result.op = "none"
    /\ result' = Returned("composite_score",
                          composite_score(args.success_rate, args.directional_accuracy,
                                          args.avg_absolute_error))
    /\ UNCHANGED <<position_tickers, watchlist_tickers, analyst_snapshots,
                   consensus_snapshots, analyst_scores, runs, io, deployment,
                   scheduler, args, clock, sessions>>

call_is_directionally_correct ==
    /\ args.function = "is_directionally_correct"
    /\ result.op = "none"
    /\ result' = Returned("is_directionally_correct",
                          is_directionally_correct(args.predicted_return,
                                                   args.actual_return))
    /\ UNCHANGED <<position_tickers, watchlist_tickers, analyst_snapshots,
                   consensus_snapshots, analyst_scores, runs, io, deployment,
                   scheduler, args, clock, sessions>>

\* ------------------------------------------- sessions open side by side
\* the two capture runs that can be in flight together
CaptureTasks == {"scheduled", "manual"}

\* a capture run that has not opened its session; touched are the ids of
\* the stored rows the session has loaded and changed
TaskIdle ==
    [pc |-> "idle", tickers |-> <<>>, next |-> 1, s |-> CleanSession(<<>>, <<>>),
     touched_analyst |-> {}, touched_consensus |-> {}, ok |-> <<>>, failed |-> <<>>,
     outcome |-> Returned("none", <<>>)]

\* no recompute transaction open
NoTransaction == [pending |-> FALSE, before |-> <<>>, table |-> <<>>]

\* no session open
NoSessions == [tasks |-> [task \in CaptureTasks |-> TaskIdle], recompute |-> NoTransaction]

\* a reader seeing the delete of a transaction that has not committed
visible_scores_with_open_delete == IF sessions.recompute.pending THEN clear_scores(sessions.recompute.before) ELSE analyst_scores

\* the score rows a query of another session reads: the committed rows; the
\* delete of an open recompute is part of its transaction and its new rows
\* are not flushed before the commit (autoflush=False)
visible_scores == analyst_scores

\* lines 115-136: recompute_scores has executed its delete and added the new
\* score objects to its session; nothing is committed
recompute_begins ==
    /\ runs < MaxRuns
    /\ ~sessions.recompute.pending
    /\ sessions' = [sessions EXCEPT !.recompute =
                       [pending |-> TRUE, before |-> analyst_scores,
                        table |-> clear_scores(analyst_scores)
                                      \o ScoreRows(analyst_snapshots)]]
    /\ io' = [NoIO EXCEPT !.op = "recompute_scores",
                          !.deleted = Len(analyst_scores)
                                        - Len(clear_scores(analyst_scores))]
    /\ UNCHANGED <<position_tickers, watchlist_tickers, deployment, scheduler, args,
                   clock, analyst_scores, analyst_snapshots, consensus_snapshots,
                   result, runs>>

\* line 138: the commit flushes the new rows and ends the transaction; a
\* flush that breaks uq_analyst_scores_firm_ticker raises and nothing of the
\* transaction is kept
recompute_commits ==
    /\ sessions.recompute.pending
    /\ runs' = runs + 1
    /\ sessions' = [sessions EXCEPT !.recompute = NoTransaction]
    /\ IF ScoreConstraintHolds(sessions.recompute.table)
       THEN /\ analyst_scores' = sessions.recompute.table
            /\ result' = Returned("recompute_scores",
                                  [scores_written |-> Len(ScoreRows(analyst_snapshots)),
                                   source_rows |->
                                       Len(list_resolved_analyst_snapshots(
                                               analyst_snapshots))])
       ELSE /\ result' = Raised("recompute_scores")
            /\ UNCHANGED analyst_scores
    /\ UNCHANGED <<position_tickers, watchlist_tickers, deployment, scheduler, args,
                   clock, analyst_snapshots, consensus_snapshots, io>>

\* line 138 raising SQLAlchemyError: the caller rolls the session back and
\* the delete is undone with the rest
recompute_rolls_back ==
    /\ sessions.recompute.pending
    /\ runs' = runs + 1
    /\ sessions' = [sessions EXCEPT !.recompute = NoTransaction]
    /\ result' = Raised("recompute_scores")
    /\ UNCHANGED <<position_tickers, watchlist_tickers, deployment, scheduler, args,
                   clock, analyst_scores, analyst_snapshots, consensus_snapshots, io>>

\* what the queries of the task's session return now: the committed rows,
\* with the session's own changed objects in place of the rows they were
\* loaded from, and its pending objects not flushed
Refreshed(task) ==
    LET t == sessions.tasks[task]
    IN  [analyst |-> [i \in 1..Len(analyst_snapshots) |->
                         IF i \in t.touched_analyst THEN t.s.analyst[i]
                         ELSE analyst_snapshots[i]],
         consensus |-> [i \in 1..Len(consensus_snapshots) |->
                           IF i \in t.touched_consensus THEN t.s.consensus[i]
                           ELSE consensus_snapshots[i]],
         new_analyst |-> t.s.new_analyst,
         new_consensus |-> t.s.new_consensus]

\* lines 42-43, on a session of the task's own (scheduler_service.py line 93,
\* prediction_service.py line 563)
capture_run_begins(task) ==
    /\ sessions.tasks[task].pc = "idle"
    /\ sessions' = [sessions EXCEPT !.tasks[task] =
                       [TaskIdle EXCEPT !.pc = "running",
                                        !.tickers = get_all_tracked_tickers,
                                        !.s = CleanSession(analyst_snapshots,
                                                           consensus_snapshots)]]
    /\ UNCHANGED <<position_tickers, watchlist_tickers, deployment, scheduler, args,
                   clock, analyst_scores, analyst_snapshots, consensus_snapshots,
                   result, runs, io>>

\* lines 46-54: one pass of the loop; while the pass awaits its providers the
\* other run goes on
capture_run_step(task, snapshot_date) ==
    /\ sessions.tasks[task].pc = "running"
    /\ sessions.tasks[task].next <= Len(sessions.tasks[task].tickers)
    /\ \E a \in ProviderAnswers :
          LET t == sessions.tasks[task]
              ticker == t.tickers[t.next]
              view == Refreshed(task)
              step == capture_ticker(view, ticker, snapshot_date, a)
          IN  sessions' = [sessions EXCEPT !.tasks[task] =
                  IF step.raised
                  THEN [t EXCEPT !.s = Rollback(step.s),
                                 !.touched_analyst = {}, !.touched_consensus = {},
                                 !.failed = Append(@, ticker), !.next = @ + 1]
                  ELSE [t EXCEPT !.s = step.s,
                                 !.touched_analyst =
                                     {i \in 1..Len(view.analyst) :
                                         step.s.analyst[i] # analyst_snapshots[i]},
                                 !.touched_consensus =
                                     {i \in 1..Len(view.consensus) :
                                         step.s.consensus[i] # consensus_snapshots[i]},
                                 !.ok = Append(@, ticker), !.next = @ + 1]]
    /\ UNCHANGED <<position_tickers, watchlist_tickers, deployment, scheduler, args,
                   clock, analyst_scores, analyst_snapshots, consensus_snapshots,
                   result, runs, io>>

\* lines 55-56: the commit after the loop.  A flush that breaks a unique
\* constraint raises IntegrityError out of run_daily_snapshot: _wrap_db_job
\* rolls the scheduled run back (scheduler_service.py lines 97-99), and
\* run_snapshot, which has no except clause, lets it pass to its caller
capture_run_commits(task) ==
    /\ sessions.tasks[task].pc = "running"
    /\ sessions.tasks[task].next > Len(sessions.tasks[task].tickers)
    /\ LET t == sessions.tasks[task]
           view == Refreshed(task)
       IN  IF Commits(view)
           THEN /\ CommitSession(view)
                /\ sessions' = [sessions EXCEPT !.tasks[task] =
                       [t EXCEPT !.pc = "done",
                                 !.outcome = Returned("run_daily_snapshot",
                                                 [tracked |-> Len(t.tickers),
                                                  ok |-> Len(t.ok),
                                                  failed |-> Len(t.failed)])]]
           ELSE /\ UNCHANGED <<analyst_snapshots, consensus_snapshots>>
                /\ sessions' = [sessions EXCEPT !.tasks[task] =
                       [t EXCEPT !.pc = "done",
                                 !.outcome = Raised("run_daily_snapshot")]]
    /\ UNCHANGED <<position_tickers, watchlist_tickers, deployment, scheduler, args,
                   clock, analyst_scores, result, runs, io>>


\* ------------------------------------------------------- the query facade
\* str.lower() on the sector names of the model
Lower(s) ==
    CASE s = "Technology" -> "technology"
      [] s = "TECHNOLOGY" -> "technology"
      [] s = "Energy" -> "energy"
      [] OTHER -> s

\* symbols passed to get_analyst_scorecard
QuerySymbols == {"aapl", "AMZN"}

Percent(x) == RatMul(x, <<100, 1>>)

\* lines 325-330: the ids of the symbol's rows, latest snapshot_date first;
\* the rows of one date come as the database returns them, in table order or
\* in its reverse
ScorecardRows(table, symbol, reversed) ==
    LET ids == {i \in 1..Len(table) : Upper(table[i].ticker) = Upper(symbol)}
        Before(i, j) == \/ table[i].snapshot_date > table[j].snapshot_date
                        \/ /\ table[i].snapshot_date = table[j].snapshot_date
                           /\ IF reversed THEN i > j ELSE i < j
    IN  [p \in 1..Cardinality(ids) |->
            CHOOSE i \in ids : Cardinality({j \in ids : Before(j, i)}) = p - 1]

\* line 344
insufficient_data(resolved) == resolved < MinPredictions

\* lines 341-378: the entry of one firm
scorecard_entry(firm, records) ==
    LET resolved == SelectSeq(records, LAMBDA r : /\ r.prediction_error # None
                                                  /\ ~r.is_unresolvable)
        n == Len(resolved)
        insufficient == insufficient_data(n)
        errors == [i \in 1..n |-> RatAbs(Val(resolved[i].prediction_error))]
        success_rate ==
            Percent(Rat(Cardinality({i \in 1..n : RatLess(errors[i], success_threshold)}),
                        n))
        direction_rate ==
            Percent(Rat(Cardinality({i \in 1..n :
                                        resolved[i].is_directionally_correct = Some(TRUE)}),
                        n))
        avg_error == Percent(RatMul(RatSum(errors), <<1, n>>))
        composite == Percent(composite_score(RatMul(success_rate, <<1, 100>>),
                                             RatMul(direction_rate, <<1, 100>>),
                                             RatMul(avg_error, <<1, 100>>)))
    IN  [firm |-> firm,
         total_predictions |-> Len(records),
         insufficient |-> insufficient,
         success_rate |-> IF insufficient THEN RatZero ELSE success_rate,
         direction_rate |-> IF insufficient THEN RatZero ELSE direction_rate,
         avg_error |-> IF insufficient THEN RatZero ELSE avg_error,
         composite |-> IF insufficient THEN RatZero ELSE composite]

\* the entries in the order of the by_firm dict
scorecard_unsorted(entries) == entries

\* lines 380-383: sorted() by (insufficient, -composite); the sort is stable
sort_scorecard(entries) ==
    LET n == Len(entries)
        Less(a, b) == \/ ~a.insufficient /\ b.insufficient
                      \/ /\ a.insufficient = b.insufficient
                         /\ RatLess(b.composite, a.composite)
        Position(i) ==
            Cardinality({j \in 1..n : Less(entries[j], entries[i])})
                + Cardinality({j \in 1..(i - 1) : /\ ~Less(entries[i], entries[j])
                                                  /\ ~Less(entries[j], entries[i])})
                + 1
    IN  [p \in 1..n |-> entries[CHOOSE i \in 1..n : Position(i) = p]]

\* lines 322-383 on the AnalystSnapshot table
Scorecard(table, symbol, reversed) ==
    LET ids == ScorecardRows(table, symbol, reversed)
        rows == [p \in 1..Len(ids) |-> table[ids[p]]]
        by_firm == GroupKeys(rows, LAMBDA r : r.firm, <<>>)
    IN  sort_scorecard([k \in 1..Len(by_firm) |->
                           scorecard_entry(by_firm[k],
                                           SelectSeq(rows, LAMBDA r : r.firm = by_firm[k]))])

get_analyst_scorecard(symbol) ==
    /\ \E reversed \in BOOLEAN :
          result' = Returned("get_analyst_scorecard",
                             Scorecard(analyst_snapshots, symbol, reversed))
    /\ io' = [NoIO EXCEPT !.op = "get_analyst_scorecard", !.input = symbol]
    /\ UNCHANGED <<position_tickers, watchlist_tickers, deployment,
                   scheduler, args, clock, sessions, analyst_scores, runs,
                   analyst_snapshots, consensus_snapshots>>

\* how get_company_profile goes for one ticker: it raises a recoverable
\* error, or returns a profile with or without a sector
ProfileAnswers ==
    {[kind |-> "raises"], [kind |-> "ok", sector |-> None]}
        \cup [kind : {"ok"}, sector : {Some("Technology"), Some("Energy")}]

\* the sector and symbol arguments of get_top_analysts and what the provider
\* answers for each tracked ticker
LeaderboardQueries ==
    {q \in [sector : {None, Some("  "), Some(" TECHNOLOGY")},
            symbol : {None, Some("aapl")},
            profiles : [{"AAPL", "AMZN"} -> ProfileAnswers]] :
        q.sector # Some(" TECHNOLOGY") =>
            \A t \in {"AAPL", "AMZN"} : q.profiles[t].kind = "raises"}

\* the truth value of an optional string argument
Truthy(x) == x # None /\ Val(x) # ""

\* the loop leaving at the first ticker whose lookup raises
RECURSIVE lookup_sectors_stops_at_failure(_, _, _)
lookup_sectors_stops_at_failure(tickers, profiles, ticker_sectors) ==
    IF tickers = <<>> THEN ticker_sectors
    ELSE LET answer == profiles[Head(tickers)]
             profile_sector == Strip(IF answer.sector = None THEN ""
                                     ELSE Val(answer.sector))
         IN  IF answer.kind = "raises" THEN ticker_sectors
             ELSE lookup_sectors_stops_at_failure(
                      Tail(tickers), profiles,
                      IF profile_sector # ""
                      THEN ticker_sectors \cup {<<Head(tickers), Lower(profile_sector)>>}
                      ELSE ticker_sectors)

\* lines 477-485: the loop over the sorted tickers; ticker_sectors is the set
\* of the dict's items
RECURSIVE lookup_sectors(_, _, _)
lookup_sectors(tickers, profiles, ticker_sectors) ==
    IF tickers = <<>> THEN ticker_sectors
    ELSE LET answer == profiles[Head(tickers)]
             profile_sector == Strip(IF answer.sector = None THEN ""
                                     ELSE Val(answer.sector))
         IN  IF answer.kind = "raises"
             THEN lookup_sectors(Tail(tickers), profiles, ticker_sectors)
             ELSE lookup_sectors(
                      Tail(tickers), profiles,
                      IF profile_sector # ""
                      THEN ticker_sectors \cup {<<Head(tickers), Lower(profile_sector)>>}
                      ELSE ticker_sectors)

\* lines 468-486, for a facade built with a provider as main.py builds it
filter_scores_by_sector(rows, sector, profiles) ==
    LET target == Lower(Strip(sector))
        present == {Upper(Val(rows[k].ticker)) : k \in 1..Len(rows)}
        tickers == SelectSeq(TickerOrder, LAMBDA t : t \in present)
        ticker_sectors == lookup_sectors(tickers, profiles, {})
    IN  IF target = "" THEN rows
        ELSE SelectSeq(rows, LAMBDA r : <<Upper(Val(r.ticker)), target>> \in ticker_sectors)

\* a row with every metric the leaderboard shows
ValidScore(row) ==
    /\ row.success_rate # None
    /\ row.directional_accuracy # None
    /\ row.avg_absolute_error # None
    /\ row.composite_score # None

\* list.sort(key=composite, reverse=True): stable, highest composite first
sort_leaderboard(entries) ==
    LET n == Len(entries)
        Less(a, b) == RatLess(b.composite, a.composite)
        Position(i) ==
            Cardinality({j \in 1..n : Less(entries[j], entries[i])})
                + Cardinality({j \in 1..(i - 1) : /\ ~Less(entries[i], entries[j])
                                                  /\ ~Less(entries[j], entries[i])})
                + 1
    IN  [p \in 1..n |-> entries[CHOOSE i \in 1..n : Position(i) = p]]

\* lines 510-513: the mean of a metric weighted by total_predictions
weighted(values, weights) ==
    LET n == Len(values)
        total == RatSum([k \in 1..n |-> <<weights[k], 1>>])
    IN  RatMul(RatSum([k \in 1..n |-> RatMul(values[k], <<weights[k], 1>>)]),
               <<total[2], total[1]>>)

\* lines 488-534
aggregate_ticker_scores(rows) ==
    LET grouped == GroupKeys(rows, LAMBDA r : r.firm, <<>>)
        Valid(firm) == SelectSeq(rows, LAMBDA r : r.firm = firm /\ ValidScore(r))
        Total(valid) == RatSum([k \in 1..Len(valid) |-> <<valid[k].total_predictions, 1>>])[1]
        firms == SelectSeq(grouped, LAMBDA f : Valid(f) # <<>> /\ Total(Valid(f)) > 0)
        Entry(firm) ==
            LET valid == Valid(firm)
                n == Len(valid)
                weights == [k \in 1..n |-> valid[k].total_predictions]
                composite == [k \in 1..n |-> Val(valid[k].composite_score)]
                best == CHOOSE i \in 1..n :
                            /\ \A j \in 1..n : ~RatLess(composite[i], composite[j])
                            /\ \A j \in 1..(i - 1) : RatLess(composite[j], composite[i])
                worst == CHOOSE i \in 1..n :
                             /\ \A j \in 1..n : ~RatLess(composite[j], composite[i])
                             /\ \A j \in 1..(i - 1) : RatLess(composite[i], composite[j])
            IN  [firm |-> firm,
                 total_predictions |-> Total(valid),
                 tickers_covered |-> Cardinality({valid[k].ticker : k \in 1..n}),
                 success_rate |->
                     Percent(weighted([k \in 1..n |-> Val(valid[k].success_rate)], weights)),
                 direction_rate |->
                     Percent(weighted([k \in 1..n |-> Val(valid[k].directional_accuracy)],
                                      weights)),
                 avg_error |->
                     Percent(weighted([k \in 1..n |-> Val(valid[k].avg_absolute_error)],
                                      weights)),
                 composite |-> Percent(weighted(composite, weights)),
                 best_call |-> valid[best].ticker,
                 worst_call |-> valid[worst].ticker]
    IN  sort_leaderboard([k \in 1..Len(firms) |-> Entry(firms[k])])

\* lines 431-466: the global rows as they are, in the order of the query
global_leaderboard(ticker_rows, global_rows) ==
    LET scores == SelectSeq(global_rows, ValidScore)
    IN  [k \in 1..Len(scores) |->
            [firm |-> scores[k].firm,
             total_predictions |-> scores[k].total_predictions,
             tickers_covered |->
                 Cardinality({ticker_rows[j].ticker :
                                 j \in {j \in 1..Len(ticker_rows) :
                                           ticker_rows[j].firm = scores[k].firm}}),
             success_rate |-> Percent(Val(scores[k].success_rate)),
             direction_rate |-> Percent(Val(scores[k].directional_accuracy)),
             avg_error |-> Percent(Val(scores[k].avg_absolute_error)),
             composite |-> Percent(Val(scores[k].composite_score)),
             best_call |-> scores[k].best_call_ticker,
             worst_call |-> scores[k].worst_call_ticker]]

\* lines 406-466 on the AnalystScore table
TopAnalysts(table, sector, symbol, profiles) ==
    LET ticker_rows == SelectSeq(table, LAMBDA r : /\ r.ticker # None
                                                   /\ r.composite_score # None)
        global_rows == SelectSeq(table, LAMBDA r : /\ r.ticker = None
                                                   /\ r.composite_score # None)
        by_symbol == IF Truthy(symbol)
                     THEN SelectSeq(ticker_rows,
                                    LAMBDA r : Upper(Val(r.ticker)) = Upper(Val(symbol)))
                     ELSE ticker_rows
        by_sector == IF Truthy(sector)
                     THEN filter_scores_by_sector(by_symbol, Val(sector), profiles)
                     ELSE by_symbol
    IN  IF Truthy(symbol) \/ Truthy(sector)
        THEN aggregate_ticker_scores(by_sector)
        ELSE global_leaderboard(ticker_rows, global_rows)

get_top_analysts(sector, symbol, profiles) ==
    /\ result' = Returned("get_top_analysts",
                          TopAnalysts(visible_scores, sector, symbol, profiles))
    /\ io' = [NoIO EXCEPT !.op = "get_top_analysts",
                          !.query = [sector |-> sector, symbol |-> symbol,
                                     profiles |-> profiles]]
    /\ UNCHANGED <<position_tickers, watchlist_tickers, deployment,
                   scheduler, args, clock, sessions, analyst_scores, runs,
                   analyst_snapshots, consensus_snapshots>>
\* ---------------------------------------------------------- specification
Init ==
    /\ \/ /\ position_tickers = <<"aapl">>
          /\ watchlist_tickers = <<"AAPL", "">>
          /\ deployment = FullDeployment
       \/ /\ position_tickers = <<"aapl", "MSFT">>
          /\ watchlist_tickers = <<"AAPL", "">>
          /\ deployment = CaptureDeployment
    /\ analyst_snapshots = <<>>
    /\ consensus_snapshots = <<>>
    /\ analyst_scores = <<>>
    /\ result = Returned("none", <<>>)
    /\ runs = 0
    /\ scheduler = SchedulerIdle
    /\ clock = ClockStart
    /\ sessions = NoSessions
    /\ args = NoCall
    /\ io = NoIO

Next ==
    \/ \E d \in deployment.capture_dates : run_daily_snapshot(d)
    \/ \E d \in deployment.capture_dates : run_daily_snapshot_db_fails(d)
    \/ \E t \in RawSymbols, d \in deployment.capture_dates : run_snapshot_for_symbol(t, d)
    \/ \E d \in deployment.evaluation_dates : evaluate_expired_predictions(d)
    \/ \E d \in deployment.evaluation_dates : evaluate_price_raises(d)
    \/ \E d \in deployment.evaluation_dates : evaluate_db_fails(d)
    \/ recompute_scores
    \/ recompute_db_fails

Spec == Init /\ [][Next]_vars

\* the evaluation stage on the store two run_snapshot_for_symbol runs of the
\* deployment that sees every price have left
ReturnsCaptures ==
    {a \in [kind : {"ok"}, ratings : ReturnsDeployment.ratings,
            current_price : ReturnsDeployment.current, avg : {None}, current : {None},
            fallback_price : ReturnsDeployment.current] :
        a.fallback_price = a.current_price}

InitReturns ==
    /\ position_tickers = <<"aapl">>
    /\ watchlist_tickers = <<>>
    /\ deployment = ReturnsDeployment
    /\ \E a1 \in ReturnsCaptures, a2 \in ReturnsCaptures :
          \E first \in {capture_ticker(CleanSession(<<>>, <<>>), "AAPL", 0, a1).s} :
            \E second \in {capture_ticker(CleanSession(FlushedAnalyst(first),
                                                       FlushedConsensus(first)),
                                          "AAPL", 0, a2).s} :
               /\ analyst_snapshots = FlushedAnalyst(second)
               /\ consensus_snapshots = FlushedConsensus(second)
               /\ io = [NoIO EXCEPT !.op = "run_snapshot_for_symbol",
                                    !.attempted = <<"AAPL">>,
                                    !.captured = <<CaptureLog("AAPL", a2)>>]
    /\ analyst_scores = <<>>
    /\ result = Returned("run_snapshot_for_symbol",
                         [tracked |-> 1, ok |-> 1, failed |-> 0, ticker |-> "AAPL"])
    /\ runs = 2
    /\ scheduler = SchedulerIdle
    /\ clock = ClockStart
    /\ sessions = NoSessions
    /\ args = NoCall

NextReturns ==
    \/ \E d \in deployment.evaluation_dates : evaluate_expired_predictions(d)
    \/ \E d \in deployment.evaluation_dates : evaluate_price_raises(d)
    \/ \E d \in deployment.evaluation_dates : evaluate_db_fails(d)

SpecReturns == InitReturns /\ [][NextReturns]_vars


\* what the providers answered for one ticker of the daily capture that filled
\* the store of ScoresDeployment: GS with a target of 1 at a price of 1, and
\* for the first ticker possibly UBS as well
ScoresCapture(with_ubs) ==
    [kind |-> "ok",
     ratings |-> <<[firm |-> " GS", analyst_name |-> "",
                    price_target |-> Some(PriceText(1))]>>
                 \o (IF with_ubs
                     THEN <<[firm |-> "", analyst_name |-> "UBS",
                             price_target |-> Some(PriceText(1))]>>
                     ELSE <<>>),
     current_price |-> 1, avg |-> None, current |-> None, fallback_price |-> 1]

\* the store after run_daily_snapshot(0) over n tracked tickers and
\* evaluate_expired_predictions(HorizonDays), where get_price_on_date answered
\* price[k] for the k-th ticker
InitScores ==
    /\ \E n \in 0..MaxSnapshots, with_ubs \in BOOLEAN :
          /\ n = 0 => ~with_ubs
          /\ position_tickers = SubSeq(TickerOrder, 1, n)
          /\ \E st \in {DailyLoop([s |-> CleanSession(<<>>, <<>>), ok |-> 0, failed |-> 0,
                                    attempted |-> <<>>, captured |-> <<>>],
                                   SubSeq(TickerOrder, 1, n), 0,
                                   [k \in 1..n |-> ScoresCapture(with_ubs /\ k = 1)])} :
               \E price \in [1..n -> {None} \cup {Some(p) : p \in ScoresDeployment.actual}] :
                 LET analyst == FlushedAnalyst(st.s)
                     consensus == FlushedConsensus(st.s)
                     pending_analyst == list_pending_analyst_snapshots(analyst, HorizonDays)
                     pending_consensus ==
                         list_pending_consensus_snapshots(consensus, HorizonDays)
                     PriceOf(ticker) == price[CHOOSE k \in 1..n : TickerOrder[k] = ticker]
                     analyst_prices == [k \in 1..Len(pending_analyst) |->
                                           PriceOf(analyst[pending_analyst[k]].ticker)]
                     consensus_prices == [k \in 1..Len(pending_consensus) |->
                                             PriceOf(consensus[pending_consensus[k]].ticker)]
                     calls == PriceCalls(pending_analyst, pending_consensus)
                     answers == analyst_prices \o consensus_prices
                     resolved == Cardinality({k \in 1..Len(pending_analyst) :
                                                 analyst_prices[k] # None})
                 IN  /\ analyst_snapshots = EvaluateRows(analyst, pending_analyst,
                                                         analyst_prices, evaluate_analyst)
                     /\ consensus_snapshots = EvaluateRows(consensus, pending_consensus,
                                                           consensus_prices,
                                                           evaluate_consensus)
                     /\ io = [NoIO EXCEPT
                                 !.op = "evaluate_expired_predictions",
                                 !.date = HorizonDays,
                                 !.requested = {calls[k] : k \in 1..Len(calls)},
                                 !.prices = {<<calls[k], answers[k]>> :
                                                k \in 1..Len(calls)}]
                     /\ result = Returned("evaluate_expired_predictions",
                                          [resolved |-> resolved,
                                           unresolvable |->
                                               Len(pending_analyst) - resolved])
    /\ watchlist_tickers = <<>>
    /\ deployment = ScoresDeployment
    /\ analyst_scores = <<>>
    /\ runs = 2
    /\ scheduler = SchedulerIdle
    /\ clock = ClockStart
    /\ sessions = NoSessions
    /\ args = NoCall

NextScores ==
    \/ recompute_scores
    \/ recompute_db_fails
    \/ \E t \in RawSymbols, d \in deployment.capture_dates : run_snapshot_for_symbol(t, d)

SpecScores == InitScores /\ [][NextScores]_vars

\* single-symbol captures of a deployment whose rating provider answers one
\* list of up to MaxRawRows raw rows, starting from the empty store
InitDedupe ==
    /\ position_tickers = <<"aapl">>
    /\ watchlist_tickers = <<>>
    /\ \E ratings \in SeqsUpTo(DuplicateRows, MaxRawRows) :
          deployment = DedupeDeployment(ratings)
    /\ analyst_snapshots = <<>>
    /\ consensus_snapshots = <<>>
    /\ analyst_scores = <<>>
    /\ result = Returned("none", <<>>)
    /\ runs = 0
    /\ scheduler = SchedulerIdle
    /\ clock = ClockStart
    /\ sessions = NoSessions
    /\ args = NoCall
    /\ io = NoIO

NextDedupe ==
    \E t \in RawSymbols, d \in deployment.capture_dates : run_snapshot_for_symbol(t, d)

SpecDedupe == InitDedupe /\ [][NextDedupe]_vars

\* the daily capture and the nightly pipeline of NightlyDeployment, starting
\* from the empty store
InitNightly ==
    /\ position_tickers = <<"aapl">>
    /\ watchlist_tickers = <<>>
    /\ deployment = NightlyDeployment
    /\ analyst_snapshots = <<>>
    /\ consensus_snapshots = <<>>
    /\ analyst_scores = <<>>
    /\ result = Returned("none", <<>>)
    /\ runs = 0
    /\ scheduler = SchedulerIdle
    /\ clock = ClockStart
    /\ sessions = NoSessions
    /\ args = NoCall
    /\ io = NoIO

NextNightly ==
    \/ \E d \in deployment.capture_dates : run_daily_snapshot(d)
    \/ \E d \in deployment.evaluation_dates : run_nightly_pipeline(d)
    \/ \E d \in deployment.evaluation_dates : run_nightly_pipeline_raises(d)

SpecNightly == InitNightly /\ [][NextNightly]_vars

\* the scheduler's bookkeeping of the four jobs from start() on
InitScheduler ==
    /\ position_tickers = <<"aapl">>
    /\ watchlist_tickers = <<>>
    /\ deployment = FullDeployment
    /\ analyst_snapshots = <<>>
    /\ consensus_snapshots = <<>>
    /\ analyst_scores = <<>>
    /\ result = Returned("none", <<>>)
    /\ runs = 0
    /\ scheduler = SchedulerIdle
    /\ clock = ClockStart
    /\ sessions = NoSessions
    /\ args = NoCall
    /\ io = NoIO

NextScheduler ==
    \/ \E job \in JobIds : fire_time_passes(job)
    \/ process_due_jobs
    \/ \E job \in JobIds : wrapped_job_returns(job)

SpecScheduler == InitScheduler /\ [][NextScheduler]_vars

\* one call of a static method of the service with arguments from the grid
InitFunctions ==
    /\ position_tickers = <<>>
    /\ watchlist_tickers = <<>>
    /\ deployment = FullDeployment
    /\ analyst_snapshots = <<>>
    /\ consensus_snapshots = <<>>
    /\ analyst_scores = <<>>
    /\ result = Returned("none", <<>>)
    /\ runs = 0
    /\ scheduler = SchedulerIdle
    /\ clock = ClockStart
    /\ sessions = NoSessions
    /\ args \in StaticCalls
    /\ io = NoIO

NextFunctions ==
    \/ call_composite_score
    \/ call_is_directionally_correct

SpecFunctions == InitFunctions /\ [][NextFunctions]_vars

\* the queries of the facade on a store with a history of daily captures over
\* two tracked tickers.  A later capture of day 0 finds GS with a target that
\* is no number.
HistoryDeployment ==
    [ratings |-> {<<[firm |-> " GS", analyst_name |-> "", price_target |-> NotANumber]>>},
     values |-> {None}, current |-> {10}, quoted |-> {None}, actual |-> {10, 11},
     capture_dates |-> {0}, evaluation_dates |-> {}]

\* what the providers answered for one ticker of a daily capture of the
\* history: GS with a target of 10 at a price of 10, and possibly UBS with a
\* target of 11, a predicted return of exactly the success threshold
HistoryCapture(with_ubs) ==
    [kind |-> "ok",
     ratings |-> <<[firm |-> " GS", analyst_name |-> "",
                    price_target |-> Some(<<"$", "1", "0">>)]>>
                 \o (IF with_ubs
                     THEN <<[firm |-> "", analyst_name |-> "UBS",
                             price_target |-> Some(<<"1", "1", " ">>)]>>
                     ELSE <<>>),
     current_price |-> 10, avg |-> None, current |-> None, fallback_price |-> 10]

\* the session of the last of the runs run_daily_snapshot(0), ...,
\* run_daily_snapshot(days - 1); UBS rates the first ticker on the days
\* before ubs_days
RECURSIVE HistorySession(_, _, _)
HistorySession(tickers, days, ubs_days) ==
    IF days = 0 THEN CleanSession(<<>>, <<>>)
    ELSE LET before == HistorySession(tickers, days - 1, ubs_days)
         IN  DailyLoop([s |-> CleanSession(FlushedAnalyst(before), FlushedConsensus(before)),
                        ok |-> 0, failed |-> 0, attempted |-> <<>>, captured |-> <<>>],
                       tickers, days - 1,
                       [k \in 1..Len(tickers) |->
                           HistoryCapture(k = 1 /\ days - 1 < ubs_days)]).s

\* the store after these captures and evaluate_expired_predictions(HorizonDays
\* + MaxHistory), where get_price_on_date answered 11 for the rows of
\* the k-th ticker captured before day high[k] and 10 for its later rows, and,
\* if unpriced, nothing for the last day of the last ticker
InitHistory ==
    /\ position_tickers = SubSeq(TickerOrder, 1, 2)
    /\ \E days \in {0, MaxHistory - 1, MaxHistory} :
        \E ubs_days \in {0, days - 1, days} \cap 0..days :
          \E high \in [1..2 -> {0, 1, days} \cap 0..days], unpriced \in BOOLEAN :
            \E last \in {HistorySession(position_tickers, days, ubs_days)} :
               LET analyst == FlushedAnalyst(last)
                   consensus == FlushedConsensus(last)
                   today == HorizonDays + MaxHistory
                   pending_analyst == list_pending_analyst_snapshots(analyst, today)
                   pending_consensus == list_pending_consensus_snapshots(consensus, today)
                   PriceOf(row) ==
                       LET k == CHOOSE k \in 1..2 : position_tickers[k] = row.ticker
                       IN  IF unpriced /\ k = 2 /\ row.snapshot_date = days - 1 THEN None
                           ELSE IF row.snapshot_date < high[k] THEN Some(11)
                           ELSE Some(10)
                   analyst_prices == [k \in 1..Len(pending_analyst) |->
                                         PriceOf(analyst[pending_analyst[k]])]
                   consensus_prices == [k \in 1..Len(pending_consensus) |->
                                           PriceOf(consensus[pending_consensus[k]])]
                   calls == PriceCalls(pending_analyst, pending_consensus)
                   answers == analyst_prices \o consensus_prices
                   resolved == Cardinality({k \in 1..Len(pending_analyst) :
                                               analyst_prices[k] # None})
               IN  /\ days = 0 => ~unpriced
                   /\ analyst_snapshots = EvaluateRows(analyst, pending_analyst,
                                                       analyst_prices, evaluate_analyst)
                   /\ consensus_snapshots = EvaluateRows(consensus, pending_consensus,
                                                         consensus_prices,
                                                         evaluate_consensus)
                   /\ io = [NoIO EXCEPT
                               !.op = "evaluate_expired_predictions",
                               !.date = today,
                               !.requested = {calls[k] : k \in 1..Len(calls)},
                               !.prices = {<<calls[k], answers[k]>> :
                                              k \in 1..Len(calls)}]
                   /\ result = Returned("evaluate_expired_predictions",
                                        [resolved |-> resolved,
                                         unresolvable |->
                                             Len(pending_analyst) - resolved])
    /\ watchlist_tickers = <<>>
    /\ deployment = HistoryDeployment
    /\ analyst_scores = <<>>
    /\ runs = MaxRuns - 2
    /\ scheduler = SchedulerIdle
    /\ clock = ClockStart
    /\ sessions = NoSessions
    /\ args = NoCall

NextHistory ==
    \/ recompute_scores
    \/ \E t \in RawSymbols, d \in deployment.capture_dates : run_snapshot_for_symbol(t, d)
    \/ \E symbol \in QuerySymbols : get_analyst_scorecard(symbol)

SpecHistory == InitHistory /\ [][NextHistory]_vars

\* the leaderboard queries on the same stores
NextLeaderboard ==
    \/ recompute_scores
    \/ \E q \in LeaderboardQueries : get_top_analysts(q.sector, q.symbol, q.profiles)

SpecLeaderboard == InitHistory /\ [][NextLeaderboard]_vars

\* the scheduler following the cron cycle of the three pipeline jobs, each
\* job taking any time to return
NextCycle ==
    \/ cron_fire_time_reached
    \/ next_weekday_begins
    \/ \E job \in PipelineJobs : wrapped_job_returns(job)

SpecCycle == InitScheduler /\ [][NextCycle]_vars


\* the queries of a reader: every ticker's sector lookup has the same answer
ReaderQueries ==
    {query \in LeaderboardQueries :
        \A t, u \in DOMAIN query.profiles : query.profiles[t] = query.profiles[u]}

\* leaderboard reads on sessions of their own while recompute_scores holds
\* its transaction open
NextReaders ==
    \/ recompute_begins
    \/ recompute_commits
    \/ recompute_rolls_back
    \/ \E query \in ReaderQueries :
           get_top_analysts(query.sector, query.symbol, query.profiles)

SpecReaders == InitHistory /\ [][NextReaders]_vars


\* the scheduled capture job and a manual run_snapshot of the same day, in
\* flight together over two tracked tickers on an empty store
InitConcurrent ==
    /\ position_tickers = <<"aapl", "MSFT">>
    /\ watchlist_tickers = <<>>
    /\ deployment = CaptureDeployment
    /\ analyst_snapshots = <<>>
    /\ consensus_snapshots = <<>>
    /\ analyst_scores = <<>>
    /\ result = Returned("none", <<>>)
    /\ runs = 0
    /\ scheduler = SchedulerIdle
    /\ clock = ClockStart
    /\ sessions = NoSessions
    /\ args = NoCall
    /\ io = NoIO

NextConcurrent ==
    \/ \E task \in CaptureTasks : capture_run_begins(task)
    \/ \E task \in CaptureTasks, d \in deployment.capture_dates : capture_run_step(task, d)
    \/ \E task \in CaptureTasks : capture_run_commits(task)

SpecConcurrent == InitConcurrent /\ [][NextConcurrent]_vars

\* ------------------------------------------------------------------ claims
\* the step is a run of one of the capture stages that returned
CaptureRunReturns ==
    /\ runs' = runs + 1
    /\ io'.op \in {"run_daily_snapshot", "run_snapshot_for_symbol"}
    /\ result'.status = "returned"

\* the stored analyst rows with the given key
AnalystRowsWithKey(table, key) == {i \in 1..Len(table) : AnalystKey(table[i]) = key}

ConsensusRowsWithKey(table, key) == {i \in 1..Len(table) : ConsensusKey(table[i]) = key}

\* C1: after any capture run the store holds at most one AnalystSnapshot row
\* per (ticker, snapshot_date, firm) and one ConsensusSnapshot row per (ticker,
\* snapshot_date), and a capture of a ticker and date for a firm that already
\* has a row adds no row for it and leaves that row with the price_target and
\* the current_price of this capture.
C1_OneRowPerKeyOverwritten ==
    [][CaptureRunReturns =>
        /\ UniqueConstraintsHold(CleanSession(analyst_snapshots', consensus_snapshots'))
        /\ \A k \in 1..Len(io'.captured) :
             \A j \in 1..Len(io'.captured[k].rows) :
               LET c == io'.captured[k]
                   key == <<c.ticker, io'.date, c.rows[j].firm>>
               IN  \A i \in AnalystRowsWithKey(analyst_snapshots, key) :
                     /\ AnalystRowsWithKey(analyst_snapshots', key) = {i}
                     /\ analyst_snapshots'[i].price_target = c.rows[j].price_target
                     /\ analyst_snapshots'[i].current_price = c.current_price]_vars

\* C2: when run_daily_snapshot returns, every ticker it counted in ok has the
\* analyst rows and the consensus row of this run in the store, also when
\* another ticker of the run failed and was rolled back.
C2_OkTickersPersisted ==
    (result.op = "run_daily_snapshot" /\ result.status = "returned") =>
        \A k \in 1..Len(io.captured) :
            LET c == io.captured[k]
            IN  /\ ConsensusRowsWithKey(consensus_snapshots, <<c.ticker, io.date>>) # {}
                /\ \A j \in 1..Len(c.rows) :
                     AnalystRowsWithKey(analyst_snapshots,
                                        <<c.ticker, io.date, c.rows[j].firm>>) # {}

\* C3: a run_daily_snapshot that returns has attempted every tracked ticker
\* exactly once, whichever of them raised a recoverable error in either
\* sub-step, and its counts satisfy ok + failed = tracked = the number of
\* tracked tickers, with failed the number of tickers that raised.
C3_EveryTickerAttemptedOnce ==
    (result.op = "run_daily_snapshot" /\ result.status = "returned") =>
        /\ io.attempted = get_all_tracked_tickers
        /\ result.value.tracked = Len(get_all_tracked_tickers)
        /\ result.value.ok + result.value.failed = result.value.tracked
        /\ result.value.ok = Len(io.captured)

\* a run whose first ticker failed and whose second ticker was still captured
C3_Witness ==
    /\ result.op = "run_daily_snapshot"
    /\ result.status = "returned"
    /\ result.value = [tracked |-> 2, ok |-> 1, failed |-> 1]
    /\ io.attempted = <<"AAPL", "MSFT">>
    /\ Len(io.captured) = 1
    /\ io.captured[1].ticker = "MSFT"

\* C4: run_daily_snapshot and evaluate_expired_predictions never raise a
\* recoverable provider or persistence error to their caller.
C4_StagesNeverRaise ==
    result.op \in {"run_daily_snapshot", "evaluate_expired_predictions"} =>
        result.status = "returned"

\* the four outcome fields of an AnalystSnapshot row
OutcomeFields(r) ==
    <<r.actual_price_at_target, r.actual_return, r.prediction_error,
      r.is_directionally_correct>>

OutcomeNull(r) == \A k \in 1..4 : OutcomeFields(r)[k] = None

OutcomeSet(r) == \A k \in 1..4 : OutcomeFields(r)[k] # None

IsPending(r) == OutcomeNull(r) /\ ~r.is_unresolvable

IsResolved(r) == OutcomeSet(r) /\ ~r.is_unresolvable

IsUnresolvable(r) == OutcomeNull(r) /\ r.is_unresolvable

\* the step is a run of the evaluation stage
EvaluationRun ==
    /\ runs' = runs + 1
    /\ io'.op = "evaluate_expired_predictions"

\* C5: an evaluation run with reference date D takes an AnalystSnapshot row out
\* of pending exactly when at the start of the run its target_date <= D, its
\* outcome is null, its price_target is not null and is_unresolvable is false;
\* every other row is left as it was.
C5_LeavesPendingIffEligible ==
    [][EvaluationRun =>
        \A i \in 1..Len(analyst_snapshots) :
            IF /\ analyst_snapshots[i].target_date <= io'.date
               /\ OutcomeNull(analyst_snapshots[i])
               /\ analyst_snapshots[i].price_target # None
               /\ ~analyst_snapshots[i].is_unresolvable
            THEN ~IsPending(analyst_snapshots'[i])
            ELSE analyst_snapshots'[i] = analyst_snapshots[i]]_vars

\* C6: a row with is_unresolvable = true is unresolvable with a null outcome in
\* every later state, and an evaluation run neither requests its price nor
\* changes any of its fields, whatever the provider answers in that run.
C6_UnresolvableIsFinal ==
    [][\A i \in 1..Len(analyst_snapshots) :
          analyst_snapshots[i].is_unresolvable =>
              /\ i <= Len(analyst_snapshots')
              /\ IsUnresolvable(analyst_snapshots'[i])
              /\ EvaluationRun =>
                    /\ <<"analyst", i>> \notin io'.requested
                    /\ analyst_snapshots'[i] = analyst_snapshots[i]]_vars

\* an evaluation returned in which the provider had a price for some row while
\* an expired unresolvable row was not requested
C6_Witness ==
    /\ io.op = "evaluate_expired_predictions"
    /\ result.status = "returned"
    /\ \E call \in io.requested : \E p \in deployment.actual : <<call, Some(p)>> \in io.prices
    /\ \E i \in 1..Len(analyst_snapshots) :
          /\ analyst_snapshots[i].is_unresolvable
          /\ analyst_snapshots[i].target_date <= io.date
          /\ <<"analyst", i>> \notin io.requested

\* C7: an outcome field of an AnalystSnapshot row that is non-null keeps its
\* value in every later step, whether the step is a capture, an evaluation or
\* a recompute run.
C7_OutcomeWrittenOnce ==
    [][\A i \in 1..Len(analyst_snapshots) :
          \A k \in 1..4 :
              OutcomeFields(analyst_snapshots[i])[k] # None =>
                  /\ i <= Len(analyst_snapshots')
                  /\ OutcomeFields(analyst_snapshots'[i])[k] =
                         OutcomeFields(analyst_snapshots[i])[k]]_vars

\* a resolved row whose price_target a later capture has overwritten: its
\* stored error is still the one computed from the earlier target
C7_Witness ==
    \E i \in 1..Len(analyst_snapshots) :
        /\ OutcomeSet(analyst_snapshots[i])
        /\ analyst_snapshots[i].price_target # None
        /\ Val(analyst_snapshots[i].prediction_error) #
               RatSub(compute_predicted_return(analyst_snapshots[i].price_target,
                                               analyst_snapshots[i].current_price),
                      Val(analyst_snapshots[i].actual_return))

\* C8: in every state each AnalystSnapshot row is in exactly one of the states
\* pending, resolved and unresolvable.
C8_ExactlyOneState ==
    \A i \in 1..Len(analyst_snapshots) :
        Cardinality({state \in {"pending", "resolved", "unresolvable"} :
                        \/ state = "pending" /\ IsPending(analyst_snapshots[i])
                        \/ state = "resolved" /\ IsResolved(analyst_snapshots[i])
                        \/ state = "unresolvable" /\ IsUnresolvable(analyst_snapshots[i])}) = 1

\* the store holds a resolved row and an unresolvable row at once
C8_Witness ==
    /\ \E i \in 1..Len(analyst_snapshots) : IsResolved(analyst_snapshots[i])
    /\ \E i \in 1..Len(analyst_snapshots) : IsUnresolvable(analyst_snapshots[i])

\* what C9 says a row resolved with realized price a holds
ResolvedAsSpecified(r) ==
    LET a == Val(r.actual_price_at_target)
        cp == r.current_price
        pt == Val(r.price_target)
        actual_return == Val(r.actual_return)
        error == Val(r.prediction_error)
        flag == Val(r.is_directionally_correct)
    IN  IF cp = 0
        THEN actual_return = RatZero /\ error = RatZero /\ flag = TRUE
        ELSE /\ actual_return[1] * cp = (a - cp) * actual_return[2]
             /\ error[1] * cp * actual_return[2] =
                    ((pt - cp) * actual_return[2] - actual_return[1] * cp) * error[2]
             /\ flag = (\/ pt > cp /\ a > cp
                        \/ pt < cp /\ a < cp
                        \/ pt = cp /\ a = cp)

\* C9: an evaluation run that resolves an analyst row with the realized price
\* a the provider returned stores actual_return = (a - current_price) /
\* current_price, prediction_error = (price_target - current_price) /
\* current_price - actual_return and is_directionally_correct = true exactly
\* when both returns are positive, both negative or both zero; with
\* current_price = 0 both returns are 0, the error is 0 and the flag is true.
C9_OutcomeFormulas ==
    [][EvaluationRun =>
        \A i \in 1..Len(analyst_snapshots) :
            (/\ analyst_snapshots[i].actual_price_at_target = None
             /\ analyst_snapshots'[i].actual_price_at_target # None) =>
                /\ <<<<"analyst", i>>, analyst_snapshots'[i].actual_price_at_target>>
                       \in io'.prices
                /\ OutcomeSet(analyst_snapshots'[i])
                /\ ResolvedAsSpecified(analyst_snapshots'[i])]_vars

\* one evaluation resolved a row captured at price 0 and a row whose
\* predicted and actual returns are both negative and differ
C9_Witness ==
    /\ io.op = "evaluate_expired_predictions"
    /\ \E i, j \in 1..Len(analyst_snapshots) :
          /\ <<"analyst", i>> \in io.requested
          /\ <<"analyst", j>> \in io.requested
          /\ IsResolved(analyst_snapshots[i])
          /\ analyst_snapshots[i].current_price = 0
          /\ IsResolved(analyst_snapshots[j])
          /\ Val(analyst_snapshots[j].actual_return)[1] < 0
          /\ Val(analyst_snapshots[j].prediction_error)[1] # 0
          /\ Val(analyst_snapshots[j].is_directionally_correct)

\* C10: an evaluation run requests the price of every ConsensusSnapshot row
\* whose target date has passed and whose actual_price_at_target is null;
\* without a price the row stays as it is, with a price it gets
\* actual_price_at_target (and consensus_was_correct when target_avg is
\* present); a row that has its price is not requested and not changed.
C10_ConsensusRetriedUntilPriced ==
    [][EvaluationRun =>
        \A i \in 1..Len(consensus_snapshots) :
            IF /\ consensus_snapshots[i].target_date <= io'.date
               /\ consensus_snapshots[i].actual_price_at_target = None
            THEN \E answer \in io'.prices :
                    /\ answer[1] = <<"consensus", i>>
                    /\ IF answer[2] = None
                       THEN consensus_snapshots'[i] = consensus_snapshots[i]
                       ELSE /\ consensus_snapshots'[i].actual_price_at_target = answer[2]
                            /\ consensus_snapshots[i].target_avg # None =>
                                   consensus_snapshots'[i].consensus_was_correct # None
            ELSE /\ <<"consensus", i>> \notin io'.requested
                 /\ consensus_snapshots'[i] = consensus_snapshots[i]]_vars


\* a resolved row that recompute_scores scores
Scorable(r) ==
    /\ r.actual_price_at_target # None
    /\ r.price_target # None
    /\ r.prediction_error # None
    /\ ~r.is_unresolvable
    /\ ~r.is_backfilled

ScorableIds == {i \in 1..Len(analyst_snapshots) : Scorable(analyst_snapshots[i])}

RecomputeReturned == result.op = "recompute_scores" /\ result.status = "returned"

\* C11: after a recompute run that returns, the score table holds exactly one
\* row with a null ticker for every firm that has a scorable snapshot, exactly
\* one row for every (firm, ticker) pair that has one, and no other row; each
\* row's total_predictions is the number of scorable snapshots of its group;
\* scores_written is the number of rows written and source_rows the number of
\* scorable snapshots.
C11_ScoreRowsMatchGroups ==
    RecomputeReturned =>
        LET firms == {analyst_snapshots[i].firm : i \in ScorableIds}
            pairs == {<<analyst_snapshots[i].firm, analyst_snapshots[i].ticker>> :
                         i \in ScorableIds}
            Group(score) ==
                {i \in ScorableIds :
                    /\ analyst_snapshots[i].firm = score.firm
                    /\ score.ticker # None =>
                           analyst_snapshots[i].ticker = Val(score.ticker)}
        IN  /\ \A f \in firms :
                   Cardinality({k \in 1..Len(analyst_scores) :
                                   /\ analyst_scores[k].firm = f
                                   /\ analyst_scores[k].ticker = None}) = 1
            /\ \A p \in pairs :
                   Cardinality({k \in 1..Len(analyst_scores) :
                                   /\ analyst_scores[k].firm = p[1]
                                   /\ analyst_scores[k].ticker = Some(p[2])}) = 1
            /\ \A k \in 1..Len(analyst_scores) :
                   /\ analyst_scores[k].firm \in firms
                   /\ analyst_scores[k].ticker # None =>
                          <<analyst_scores[k].firm, Val(analyst_scores[k].ticker)>> \in pairs
                   /\ analyst_scores[k].total_predictions
                          = Cardinality(Group(analyst_scores[k]))
            /\ result.value.scores_written = Len(analyst_scores)
            /\ result.value.source_rows = Cardinality(ScorableIds)

\* a recompute has returned with two firms scored while a resolved row whose
\* target a later capture nulled is left out
C11_Witness ==
    /\ RecomputeReturned
    /\ \E k, l \in 1..Len(analyst_scores) :
          /\ analyst_scores[k].ticker = None
          /\ analyst_scores[l].ticker = None
          /\ analyst_scores[k].firm # analyst_scores[l].firm
    /\ \E i \in 1..Len(analyst_snapshots) :
          /\ analyst_snapshots[i].actual_price_at_target # None
          /\ analyst_snapshots[i].price_target = None

\* C12: a recompute run that returns right after a recompute run that
\* returned, the snapshots unchanged in between, leaves the same set of score
\* rows, and as many of them: the old rows are replaced, not added to.
C12_RecomputeTwiceSameRows ==
    [][(/\ RecomputeReturned
        /\ result'.op = "recompute_scores"
        /\ result'.status = "returned"
        /\ runs' = runs + 1)
       => /\ {analyst_scores'[k] : k \in 1..Len(analyst_scores')}
                = {analyst_scores[k] : k \in 1..Len(analyst_scores)}
          /\ Len(analyst_scores') = Len(analyst_scores)]_vars

\* a recompute has returned that deleted the rows an earlier one wrote and
\* wrote scored and unscored rows again
C12_Witness ==
    /\ RecomputeReturned
    /\ io.deleted > 0
    /\ \E k, l \in 1..Len(analyst_scores) :
          /\ analyst_scores[k].composite_score # None
          /\ analyst_scores[l].composite_score = None

InUnitInterval(x) == ~RatLess(x, RatZero) /\ ~RatLess(RatOne, x)

\* C13: every score row of a group of fewer than min_predictions (5)
\* snapshots has total_predictions set and every metric null; every score row
\* of a group of at least 5 has success_rate, directional_accuracy and
\* composite_score non-null and within [0, 1].
C13_MetricsOnlyFromMinPredictions ==
    \A k \in 1..Len(analyst_scores) :
        LET score == analyst_scores[k]
        IN  IF score.total_predictions < 5
            THEN /\ score.total_predictions > 0
                 /\ score.success_rate = None
                 /\ score.avg_return_error = None
                 /\ score.avg_absolute_error = None
                 /\ score.directional_accuracy = None
                 /\ score.composite_score = None
                 /\ score.best_call_ticker = None
                 /\ score.worst_call_ticker = None
            ELSE /\ score.success_rate # None
                 /\ score.directional_accuracy # None
                 /\ score.composite_score # None
                 /\ InUnitInterval(Val(score.success_rate))
                 /\ InUnitInterval(Val(score.directional_accuracy))
                 /\ InUnitInterval(Val(score.composite_score))

\* the table holds a row of a group of exactly 5 snapshots, scored strictly
\* between 0 and 1, next to a row of a smaller group
C13_Witness ==
    \E k, l \in 1..Len(analyst_scores) :
        /\ analyst_scores[k].total_predictions = 5
        /\ analyst_scores[k].composite_score # None
        /\ RatLess(RatZero, Val(analyst_scores[k].composite_score))
        /\ RatLess(Val(analyst_scores[k].composite_score), RatOne)
        /\ analyst_scores[l].total_predictions < 5

\* the firm name of a raw rating row, compared case-insensitively
FirmKey(row) == Casefold(Strip(IF row.firm # "" THEN row.firm ELSE row.analyst_name))

\* C14: a capture of one ticker that returns ok writes exactly one snapshot
\* row for every distinct firm name of the raw rating rows, names compared
\* case-insensitively, and no row for another firm; when several raw rows
\* share a firm and exactly one of them has a non-null price target, the
\* written row carries that target, whatever the order of the raw rows.
C14_OneRowPerFirmUsableTargetWins ==
    [][(/\ io'.op = "run_snapshot_for_symbol"
        /\ runs' = runs + 1
        /\ result'.value.ok = 1)
       => LET c == io'.captured[1]
              keys == {FirmKey(c.ratings[k]) : k \in 1..Len(c.ratings)} \ {""}
              Sharing(key) == {k \in 1..Len(c.ratings) : FirmKey(c.ratings[k]) = key}
              WithTarget(key) == {k \in Sharing(key) : c.ratings[k].price_target # None}
              Touched == {i \in 1..Len(analyst_snapshots') :
                             \/ i > Len(analyst_snapshots)
                             \/ analyst_snapshots'[i] # analyst_snapshots[i]}
          IN  /\ \A i \in Touched : /\ analyst_snapshots'[i].ticker = c.ticker
                                    /\ analyst_snapshots'[i].snapshot_date = io'.date
                                    /\ Casefold(analyst_snapshots'[i].firm) \in keys
              /\ \A key \in keys :
                    \E i \in 1..Len(analyst_snapshots') :
                       LET written == analyst_snapshots'[i]
                       IN  /\ written.ticker = c.ticker
                           /\ written.snapshot_date = io'.date
                           /\ Casefold(written.firm) = key
                           /\ written.current_price = c.current_price
                           /\ \A j \in Touched :
                                 Casefold(analyst_snapshots'[j].firm) = key => j = i
                           /\ (Cardinality(Sharing(key)) > 1
                               /\ Cardinality(WithTarget(key)) = 1)
                                 => \A k \in WithTarget(key) :
                                       written.price_target
                                           = to_float(c.ratings[k].price_target)
              /\ analyst_snapshots = <<>>
                    => Len(analyst_snapshots') = Cardinality(keys)]_vars

\* a capture was given three raw rows of one firm in three spellings, the
\* last one alone with a target, next to a row of another firm, and has
\* written one row with that target for the first and one for the other
C14_Witness ==
    /\ io.op = "run_snapshot_for_symbol"
    /\ result.value.ok = 1
    /\ Len(io.captured[1].ratings) = 3
    /\ FirmKey(io.captured[1].ratings[1]) = FirmKey(io.captured[1].ratings[3])
    /\ FirmKey(io.captured[1].ratings[2]) # FirmKey(io.captured[1].ratings[1])
    /\ io.captured[1].ratings[1].price_target = None
    /\ io.captured[1].ratings[3].price_target = Some(PriceText(1))
    /\ Len(analyst_snapshots) = 2
    /\ \E i \in 1..2 : analyst_snapshots[i].price_target = Some(1)

\* the rows an action has resolved: without actual price before, with one after
ResolvedByStep ==
    {i \in 1..Len(analyst_snapshots) :
        /\ analyst_snapshots[i].actual_price_at_target = None
        /\ analyst_snapshots'[i].actual_price_at_target # None}

\* what a run of the nightly pipeline that returns has done
NightlyRunAsSpecified ==
    /\ DOMAIN result'.value = {"snapshot", "evaluate", "recompute"}
    \* capture: every tracked ticker attempted, with the run's date
    /\ io'.attempted = get_all_tracked_tickers
    /\ result'.value.snapshot.tracked = Len(io'.attempted)
    /\ result'.value.snapshot.ok + result'.value.snapshot.failed = Len(io'.attempted)
    /\ \A i \in (Len(analyst_snapshots) + 1)..Len(analyst_snapshots') :
          analyst_snapshots'[i].snapshot_date = io'.date
    \* evaluation, with the same date, of the rows pending after the capture
    /\ result'.value.evaluate.resolved = Cardinality(ResolvedByStep)
    /\ \A i \in ResolvedByStep : analyst_snapshots'[i].target_date <= io'.date
    /\ \A i \in 1..Len(analyst_snapshots') :
          (/\ analyst_snapshots'[i].target_date <= io'.date
           /\ analyst_snapshots'[i].price_target # None
           /\ ~analyst_snapshots'[i].is_backfilled)
            => ~IsPending(analyst_snapshots'[i])
    \* recompute, on the rows the evaluation has left
    /\ result'.value.recompute.source_rows
          = Cardinality({i \in 1..Len(analyst_snapshots') : Scorable(analyst_snapshots'[i])})
    /\ \A i \in ResolvedByStep :
          Scorable(analyst_snapshots'[i]) =>
              \E k \in 1..Len(analyst_scores') :
                 /\ analyst_scores'[k].firm = analyst_snapshots'[i].firm
                 /\ analyst_scores'[k].ticker = None
                 /\ analyst_scores'[k].total_predictions
                       = Cardinality({j \in 1..Len(analyst_snapshots') :
                                         /\ Scorable(analyst_snapshots'[j])
                                         /\ analyst_snapshots'[j].firm
                                               = analyst_snapshots'[i].firm})

\* C15: a run of run_nightly_pipeline runs capture, then evaluation, then
\* recompute, each after the previous has returned and all with the same
\* reference date, and returns the three result dicts; its scores are
\* computed from the snapshot rows as its own evaluation has left them.
C15_NightlyRunsThreeStagesInOrder ==
    [][(io'.op = "run_nightly_pipeline" /\ runs' = runs + 1)
       => /\ result'.status = "returned"
          /\ NightlyRunAsSpecified]_vars

\* the same rows, however a stage has changed their fields
SnapshotIdentities(analyst, consensus) ==
    {<<"analyst", i, AnalystKey(analyst[i])>> : i \in 1..Len(analyst)}
        \cup {<<"consensus", i, ConsensusKey(consensus[i])>> : i \in 1..Len(consensus)}

\* C16: capture and evaluation runs leave the score table unchanged,
\* recompute runs leave every analyst and consensus snapshot row unchanged,
\* and no run of any stage, a capture run with a rolled-back ticker included,
\* removes a committed snapshot row: the committed identities only grow.
C16_StagesWriteOwnTables ==
    [][/\ io'.op \in {"run_daily_snapshot", "run_snapshot_for_symbol",
                      "evaluate_expired_predictions"}
            => analyst_scores' = analyst_scores
       /\ io'.op = "recompute_scores"
            => /\ analyst_snapshots' = analyst_snapshots
               /\ consensus_snapshots' = consensus_snapshots
       /\ SnapshotIdentities(analyst_snapshots, consensus_snapshots)
             \subseteq SnapshotIdentities(analyst_snapshots', consensus_snapshots')]_vars

\* a daily capture over a store that held rows has rolled a ticker back and
\* returned, the score table holding rows of an earlier recompute
C16_Witness ==
    /\ io.op = "run_daily_snapshot"
    /\ result.status = "returned"
    /\ result.value.failed > 0
    /\ analyst_snapshots # <<>>
    /\ consensus_snapshots # <<>>
    /\ analyst_scores # <<>>

\* C17: of every scheduled job at most one instance is in flight at any time;
\* when the scheduler handles fire times that came due while an instance of
\* the job is running, it starts no second instance, and when it handles
\* several due fire times of an idle job, it starts one instance with a
\* single run.
C17_AtMostOneInstancePerJob ==
    [][\A job \in JobIds :
          /\ Len(scheduler'[job].instances) <= 1
          /\ (scheduler[job].due > 0 /\ scheduler'[job].due = 0)
                => IF scheduler[job].instances # <<>>
                   THEN scheduler'[job].instances = scheduler[job].instances
                   ELSE scheduler'[job].instances = <<1>>]_vars

\* every job has an instance in flight, and of one of them MaxFires fire
\* times have come due meanwhile
C17_Witness ==
    /\ \A job \in JobIds : Len(scheduler[job].instances) = 1
    /\ scheduler["prediction_snapshot"].due = MaxFires
    /\ MaxFires > 1

\* 4 s + 3 d + 3 (1 - e) over 10, as numerator and denominator
WeightedSum(s, d, e) ==
    [num |-> 4 * s[1] * d[2] * e[2] + 3 * d[1] * s[2] * e[2]
                + 3 * (e[2] - e[1]) * s[2] * d[2],
     den |-> 10 * s[2] * d[2] * e[2]]

\* C18: composite_score returns 0.4 * success_rate + 0.3 *
\* directional_accuracy + 0.3 * (1 - avg_absolute_error) clamped to [0, 1]:
\* 0 when the sum is below 0, 1 when it is above 1, the sum otherwise; in
\* particular composite_score(0, 0, 10) = 0 and composite_score(1, 1, 0) = 1.
C18_CompositeIsClampedWeightedSum ==
    result.op = "composite_score" =>
        LET w == WeightedSum(args.success_rate, args.directional_accuracy,
                             args.avg_absolute_error)
            score == result.value
        IN  /\ w.num <= 0 => score = <<0, 1>>
            /\ w.num >= w.den => score = <<1, 1>>
            /\ (0 < w.num /\ w.num < w.den) => score[1] * w.den = w.num * score[2]
            /\ (args.success_rate = <<0, 1>> /\ args.directional_accuracy = <<0, 1>>
                /\ args.avg_absolute_error = <<10, 1>>) => score = <<0, 1>>
            /\ (args.success_rate = <<1, 1>> /\ args.directional_accuracy = <<1, 1>>
                /\ args.avg_absolute_error = <<0, 1>>) => score = <<1, 1>>

\* composite_score(0, 0, 10) has returned 0
C18_Witness ==
    /\ result.op = "composite_score"
    /\ args.success_rate = <<0, 1>>
    /\ args.directional_accuracy = <<0, 1>>
    /\ args.avg_absolute_error = <<10, 1>>
    /\ result.value = <<0, 1>>

Sign(x) == IF RatLess(x, RatZero) THEN 0 - 1 ELSE IF RatLess(RatZero, x) THEN 1 ELSE 0

\* C19: is_directionally_correct(p, a) is true exactly when p and a are both
\* positive, both negative or both zero; it gives the same for (a, p); and it
\* is false when exactly one of the two is zero.
C19_DirectionIsSameSign ==
    result.op = "is_directionally_correct" =>
        LET p == args.predicted_return
            a == args.actual_return
        IN  /\ result.value = (Sign(p) = Sign(a))
            /\ result.value = is_directionally_correct(a, p)
            /\ ((Sign(p) = 0) # (Sign(a) = 0)) => result.value = FALSE

\* is_directionally_correct has returned false for a zero predicted return
\* and a positive actual return
C19_Witness ==
    /\ result.op = "is_directionally_correct"
    /\ Sign(args.predicted_return) = 0
    /\ Sign(args.actual_return) = 1
    /\ result.value = FALSE

\* C20: run_snapshot_for_symbol returns, for every input ticker string, a
\* dict with tracked = 1, exactly one of ok and failed equal to 1, and ticker
\* equal to the trimmed upper-cased symbol.
C20_SymbolRunTracksOne ==
    io.op = "run_snapshot_for_symbol" =>
        /\ result.status = "returned"
        /\ result.value.tracked = 1
        /\ {result.value.ok, result.value.failed} = {0, 1}
        /\ result.value.ticker = Upper(Strip(io.input))

\* C20 as amended: run_snapshot_for_symbol returns a dict whose ticker is the
\* trimmed upper-cased symbol; for a symbol that is not blank it has
\* tracked = 1 and either ok = 1, failed = 0 with the ticker's rows of that
\* date committed, or ok = 0, failed = 1 with the store as it was; for a blank
\* symbol it has tracked = 0, ok = 0, failed = 1 and the store is as it was.
C20_SymbolRunTracksOneUnlessBlank ==
    [][(io'.op = "run_snapshot_for_symbol" /\ runs' = runs + 1)
       => LET value == result'.value
              unchanged == /\ analyst_snapshots' = analyst_snapshots
                           /\ consensus_snapshots' = consensus_snapshots
          IN  /\ result'.status = "returned"
              /\ value.ticker = Upper(Strip(io'.input))
              /\ io'.input = " aapl" => value.ticker = "AAPL"
              /\ io'.input = "  " => value.ticker = ""
              /\ IF value.ticker = ""
                 THEN value.tracked = 0 /\ value.ok = 0 /\ value.failed = 1 /\ unchanged
                 ELSE /\ value.tracked = 1
                      /\ \/ /\ value.ok = 1
                            /\ value.failed = 0
                            /\ ConsensusRowsWithKey(consensus_snapshots',
                                                    <<value.ticker, io'.date>>) # {}
                            /\ \A j \in 1..Len(io'.captured[1].rows) :
                                  AnalystRowsWithKey(
                                      analyst_snapshots',
                                      <<value.ticker, io'.date,
                                        io'.captured[1].rows[j].firm>>) # {}
                         \/ /\ value.ok = 0
                            /\ value.failed = 1
                            /\ unchanged]_vars

\* run_snapshot_for_symbol has returned tracked = 0 for a blank symbol over a
\* store that an earlier run for a symbol with blanks around it has filled
C20_Witness ==
    /\ io.op = "run_snapshot_for_symbol"
    /\ io.input = "  "
    /\ result.value = [tracked |-> 0, ok |-> 0, failed |-> 1, ticker |-> ""]
    /\ \E i \in 1..Len(analyst_snapshots) : analyst_snapshots[i].ticker = "AAPL"

\* C27: in every state every resolved AnalystSnapshot row has actual_return =
\* (actual_price_at_target - current_price) / current_price and
\* prediction_error = (price_target - current_price) / current_price -
\* actual_return for the price_target and the current_price the row holds now,
\* also after a capture has run again for the row's ticker and snapshot date.
C27_ResolvedRowsMatchStoredInputs ==
    \A i \in 1..Len(analyst_snapshots) :
        IsResolved(analyst_snapshots[i]) =>
            LET r == analyst_snapshots[i]
                a == Val(r.actual_price_at_target)
                cp == r.current_price
                actual_return == Val(r.actual_return)
                error == Val(r.prediction_error)
            IN  /\ r.price_target # None
                /\ cp # 0
                /\ actual_return[1] * cp = (a - cp) * actual_return[2]
                /\ error[1] * cp * actual_return[2] =
                       ((Val(r.price_target) - cp) * actual_return[2]
                           - actual_return[1] * cp) * error[2]

\* C29: every AnalystSnapshot and ConsensusSnapshot row has target_date =
\* snapshot_date + 365, also after an upsert; a row leaves pending, or a
\* consensus row gets its actual price, only in an evaluation whose reference
\* date is at least 365 days after the row's snapshot date; and an evaluation
\* requests no price for a row whose snapshot date is its own reference date.
C29_HorizonIsFixedAt365Days ==
    [][/\ \A i \in 1..Len(analyst_snapshots') :
             analyst_snapshots'[i].target_date = analyst_snapshots'[i].snapshot_date + 365
       /\ \A i \in 1..Len(consensus_snapshots') :
             consensus_snapshots'[i].target_date =
                 consensus_snapshots'[i].snapshot_date + 365
       /\ \A i \in 1..Len(analyst_snapshots) :
             (IsPending(analyst_snapshots[i]) /\ ~IsPending(analyst_snapshots'[i])) =>
                 /\ io'.op = "evaluate_expired_predictions"
                 /\ io'.date >= analyst_snapshots[i].snapshot_date + 365
       /\ \A i \in 1..Len(consensus_snapshots) :
             consensus_snapshots'[i].actual_price_at_target #
                 consensus_snapshots[i].actual_price_at_target =>
                 /\ io'.op = "evaluate_expired_predictions"
                 /\ io'.date >= consensus_snapshots[i].snapshot_date + 365
       /\ EvaluationRun =>
             /\ \A i \in 1..Len(analyst_snapshots) :
                   analyst_snapshots[i].snapshot_date + 365 > io'.date =>
                       <<"analyst", i>> \notin io'.requested
             /\ \A i \in 1..Len(consensus_snapshots) :
                   consensus_snapshots[i].snapshot_date + 365 > io'.date =>
                       <<"consensus", i>> \notin io'.requested]_vars

\* an evaluation with reference date 0 returned without requesting a price
\* as its third run or later, while the store holds a pending row with a
\* target and a consensus row without actual price, both captured on day 0
C29_Witness ==
    /\ io.op = "evaluate_expired_predictions"
    /\ io.date = 0
    /\ result.status = "returned"
    /\ io.requested = {}
    /\ runs >= 3
    /\ \E i \in 1..Len(analyst_snapshots) :
          /\ IsPending(analyst_snapshots[i])
          /\ analyst_snapshots[i].snapshot_date = 0
          /\ analyst_snapshots[i].price_target = Some(MaxPrice)
    /\ \E i \in 1..Len(consensus_snapshots) :
          /\ consensus_snapshots[i].snapshot_date = 0
          /\ consensus_snapshots[i].actual_price_at_target = None

\* C21: get_analyst_scorecard(symbol) returns one entry for every firm that
\* has a snapshot of the symbol and none for another firm; an entry is
\* insufficient exactly when fewer than min_predictions (5) of the firm's
\* snapshots of the symbol are resolved; every sufficient entry comes before
\* every insufficient one and the sufficient entries come in non-increasing
\* composite order.
C21_ScorecardPerFirmRanked ==
    (result.op = "get_analyst_scorecard" /\ result.status = "returned") =>
        LET entries == result.value
            rows == {i \in 1..Len(analyst_snapshots) :
                        analyst_snapshots[i].ticker = Upper(io.input)}
            firms == {analyst_snapshots[i].firm : i \in rows}
            Resolved(f) == {i \in rows : /\ analyst_snapshots[i].firm = f
                                         /\ IsResolved(analyst_snapshots[i])}
        IN  /\ \A f \in firms :
                   Cardinality({k \in 1..Len(entries) : entries[k].firm = f}) = 1
            /\ \A k \in 1..Len(entries) :
                   /\ entries[k].firm \in firms
                   /\ entries[k].insufficient <=>
                          Cardinality(Resolved(entries[k].firm)) < 5
            /\ \A k, l \in 1..Len(entries) :
                   k < l =>
                       /\ ~(entries[k].insufficient /\ ~entries[l].insufficient)
                       /\ (~entries[k].insufficient /\ ~entries[l].insufficient) =>
                              ~RatLess(entries[k].composite, entries[l].composite)

\* a scorecard of two sufficient entries, the firm captured second ranked
\* first with the strictly higher composite
C21_Witness ==
    /\ result.op = "get_analyst_scorecard"
    /\ Len(result.value) = 2
    /\ result.value[1].firm = "UBS"
    /\ ~result.value[1].insufficient
    /\ ~result.value[2].insufficient
    /\ RatLess(result.value[2].composite, result.value[1].composite)

TopAnalystsReturned == result.op = "get_top_analysts" /\ result.status = "returned"

\* the per-ticker score rows with non-null metrics that match the filters of
\* the query: the ticker is the symbol, and the sector the provider returned
\* for the ticker is the requested one, case-insensitively
MatchingScores(query) ==
    SelectSeq(analyst_scores,
              LAMBDA r :
                  /\ r.ticker # None
                  /\ r.success_rate # None
                  /\ r.directional_accuracy # None
                  /\ r.avg_absolute_error # None
                  /\ r.composite_score # None
                  /\ Truthy(query.symbol) => Val(r.ticker) = Upper(Val(query.symbol))
                  /\ Truthy(query.sector) =>
                         /\ query.profiles[Val(r.ticker)].kind = "ok"
                         /\ query.profiles[Val(r.ticker)].sector # None
                         /\ Lower(Strip(Val(query.profiles[Val(r.ticker)].sector)))
                                = Lower(Strip(Val(query.sector))))

\* the entry is the average of the rows weighted by total_predictions
AveragesRows(entry, rows) ==
    LET n == Len(rows)
        total == RatSum([k \in 1..n |-> <<rows[k].total_predictions, 1>>])
        Sum(values) == RatSum([k \in 1..n |->
                                  RatMul(values[k], <<100 * rows[k].total_predictions, 1>>)])
    IN  /\ entry.total_predictions = total[1]
        /\ RatMul(entry.success_rate, total)
               = Sum([k \in 1..n |-> Val(rows[k].success_rate)])
        /\ RatMul(entry.direction_rate, total)
               = Sum([k \in 1..n |-> Val(rows[k].directional_accuracy)])
        /\ RatMul(entry.avg_error, total)
               = Sum([k \in 1..n |-> Val(rows[k].avg_absolute_error)])
        /\ RatMul(entry.composite, total)
               = Sum([k \in 1..n |-> Val(rows[k].composite_score)])

\* what C22 says of the entries a filtered query returns
FilteredAsSpecified(entries, query) ==
    LET matching == MatchingScores(query)
        firms == {matching[k].firm : k \in 1..Len(matching)}
    IN  /\ \A f \in firms : Cardinality({k \in 1..Len(entries) : entries[k].firm = f}) = 1
        /\ \A k \in 1..Len(entries) :
               /\ entries[k].firm \in firms
               /\ AveragesRows(entries[k],
                               SelectSeq(matching, LAMBDA r : r.firm = entries[k].firm))
        /\ \A k, l \in 1..Len(entries) :
               k < l => ~RatLess(entries[k].composite, entries[l].composite)

\* what C22 says of the entries an unfiltered query returns
UnfilteredAsSpecified(entries) ==
    LET global == SelectSeq(analyst_scores,
                            LAMBDA r : r.ticker = None /\ r.composite_score # None)
    IN  /\ Len(entries) = Len(global)
        /\ \A k \in 1..Len(global) :
               \E l \in 1..Len(entries) :
                   /\ entries[l].firm = global[k].firm
                   /\ entries[l].total_predictions = global[k].total_predictions
                   /\ entries[l].success_rate = Percent(Val(global[k].success_rate))
                   /\ entries[l].direction_rate
                          = Percent(Val(global[k].directional_accuracy))
                   /\ entries[l].avg_error = Percent(Val(global[k].avg_absolute_error))
                   /\ entries[l].composite = Percent(Val(global[k].composite_score))

\* C22: with a symbol or a sector filter get_top_analysts returns one entry
\* for every firm that has a matching per-ticker score row with non-null
\* metrics, its metrics the averages of the matching rows weighted by
\* total_predictions (times 100), its total_predictions their sum, the entries
\* in non-increasing composite order; with no filter it returns exactly the
\* global rows with a composite_score, not aggregated.
C22_LeaderboardAggregatesMatchingRows ==
    TopAnalystsReturned =>
        IF Truthy(io.query.symbol) \/ Truthy(io.query.sector)
        THEN FilteredAsSpecified(result.value, io.query)
        ELSE UnfilteredAsSpecified(result.value)

\* C23: a sector-filtered query in which get_company_profile raises a
\* recoverable error for a ticker returns, and leaves out that ticker's rows
\* only: every firm with a scored row of another ticker whose sector is the
\* requested one, case-insensitively, has an entry, and the entry counts
\* exactly those rows and tickers.
C23_FailedLookupExcludesOneTicker ==
    (/\ io.op = "get_top_analysts"
     /\ io.query.sector = Some(" TECHNOLOGY")
     /\ \E t \in DOMAIN io.query.profiles : io.query.profiles[t].kind = "raises") =>
        LET Kept(r) ==
                /\ r.ticker # None
                /\ r.composite_score # None
                /\ Truthy(io.query.symbol) => Val(r.ticker) = Upper(Val(io.query.symbol))
                /\ io.query.profiles[Val(r.ticker)].kind = "ok"
                /\ io.query.profiles[Val(r.ticker)].sector
                       \in {Some("Technology"), Some("TECHNOLOGY"), Some("technology")}
            kept == SelectSeq(analyst_scores, Kept)
            OfFirm(f) == SelectSeq(kept, LAMBDA r : r.firm = f)
        IN  /\ result.status = "returned"
            /\ \A k \in 1..Len(kept) :
                   \E l \in 1..Len(result.value) : result.value[l].firm = kept[k].firm
            /\ \A l \in 1..Len(result.value) :
                   LET rows == OfFirm(result.value[l].firm)
                   IN  /\ rows # <<>>
                       /\ result.value[l].tickers_covered
                              = Cardinality({rows[k].ticker : k \in 1..Len(rows)})
                       /\ result.value[l].total_predictions
                              = RatSum([k \in 1..Len(rows) |->
                                           <<rows[k].total_predictions, 1>>])[1]

\* a query for the sector " TECHNOLOGY" in which the lookup of AAPL raised and
\* AMZN is in "Technology" returned an entry built from the rows of AMZN
C23_Witness ==
    /\ TopAnalystsReturned
    /\ io.query.sector = Some(" TECHNOLOGY")
    /\ io.query.symbol = None
    /\ io.query.profiles["AAPL"].kind = "raises"
    /\ io.query.profiles["AMZN"] = [kind |-> "ok", sector |-> Some("Technology")]
    /\ \E k \in 1..Len(analyst_scores) :
          /\ analyst_scores[k].ticker = Some("AAPL")
          /\ analyst_scores[k].composite_score # None
    /\ Len(result.value) > 0
    /\ \A l \in 1..Len(result.value) : result.value[l].best_call = Some("AMZN")

\* the snapshots recompute_scores has counted for a score row
ScoredGroup(score) ==
    SelectSeq(analyst_snapshots,
              LAMBDA r : /\ Scorable(r)
                         /\ r.firm = score.firm
                         /\ score.ticker # None => r.ticker = Val(score.ticker))

\* C30: right after a recompute, a score row of a group of at least
\* min_predictions (5) rows has success_rate = the fraction of the group with
\* |prediction_error| strictly below 0.10, avg_absolute_error = the mean of
\* |prediction_error|, avg_return_error = the mean of the signed error,
\* directional_accuracy = the fraction of true flags among the non-null flags,
\* and best_call_ticker / worst_call_ticker = the ticker of a row of the group
\* with the smallest / largest |prediction_error|; for a per-ticker row both
\* are its ticker.
C30_ScoreMetricsAreGroupStatistics ==
    RecomputeReturned =>
        \A s \in 1..Len(analyst_scores) :
            analyst_scores[s].total_predictions >= 5 =>
                LET score == analyst_scores[s]
                    group == ScoredGroup(score)
                    n == Len(group)
                    signed == [k \in 1..n |-> Val(group[k].prediction_error)]
                    size == [k \in 1..n |-> RatAbs(signed[k])]
                    below == {k \in 1..n : RatLess(size[k], <<1, 10>>)}
                    flagged == {k \in 1..n : group[k].is_directionally_correct # None}
                    right == {k \in flagged : Val(group[k].is_directionally_correct)}
                    rate == Val(score.success_rate)
                    accuracy == Val(score.directional_accuracy)
                IN  /\ n = score.total_predictions
                    /\ rate[1] * n = Cardinality(below) * rate[2]
                    /\ RatMul(Val(score.avg_absolute_error), <<n, 1>>) = RatSum(size)
                    /\ RatMul(Val(score.avg_return_error), <<n, 1>>) = RatSum(signed)
                    /\ flagged # {} =>
                           accuracy[1] * Cardinality(flagged)
                               = Cardinality(right) * accuracy[2]
                    /\ \E k \in 1..n :
                           /\ score.best_call_ticker = Some(group[k].ticker)
                           /\ \A j \in 1..n : ~RatLess(size[j], size[k])
                    /\ \E k \in 1..n :
                           /\ score.worst_call_ticker = Some(group[k].ticker)
                           /\ \A j \in 1..n : ~RatLess(size[k], size[j])
                    /\ score.ticker # None =>
                           /\ score.best_call_ticker = score.ticker
                           /\ score.worst_call_ticker = score.ticker

\* a recompute has scored a per-ticker group that holds an error of exactly
\* 0.10, which is no success, and a firm's global group whose best and worst
\* calls are on different tickers
C30_Witness ==
    /\ RecomputeReturned
    /\ \E s \in 1..Len(analyst_scores) :
          /\ analyst_scores[s].ticker # None
          /\ analyst_scores[s].total_predictions >= 5
          /\ RatLess(Val(analyst_scores[s].success_rate), RatOne)
          /\ \A k \in 1..Len(ScoredGroup(analyst_scores[s])) :
                ~RatLess(<<1, 10>>,
                         RatAbs(Val(ScoredGroup(analyst_scores[s])[k].prediction_error)))
    /\ \E s \in 1..Len(analyst_scores) :
          /\ analyst_scores[s].ticker = None
          /\ analyst_scores[s].best_call_ticker # None
          /\ analyst_scores[s].best_call_ticker # analyst_scores[s].worst_call_ticker

\* C28: in a scorecard read right after a recompute, every entry agrees with
\* the (firm, symbol) score row: the entry is insufficient exactly when there
\* is no such row or its composite_score is null, and otherwise its
\* success_rate, direction_rate, avg_error and composite are 100 times the
\* row's success_rate, directional_accuracy, avg_absolute_error and
\* composite_score.
C28_ScorecardAgreesWithScoreRows ==
    [][(/\ RecomputeReturned
        /\ io'.op = "get_analyst_scorecard"
        /\ result'.status = "returned")
       => \A e \in 1..Len(result'.value) :
              LET entry == result'.value[e]
                  rows == {k \in 1..Len(analyst_scores) :
                              /\ analyst_scores[k].firm = entry.firm
                              /\ analyst_scores[k].ticker = Some(Upper(io'.input))}
              IN  /\ entry.insufficient <=>
                         \A k \in rows : analyst_scores[k].composite_score = None
                  /\ ~entry.insufficient =>
                         \E k \in rows :
                             /\ analyst_scores[k].composite_score # None
                             /\ entry.success_rate
                                    = Percent(Val(analyst_scores[k].success_rate))
                             /\ entry.direction_rate
                                    = Percent(Val(analyst_scores[k].directional_accuracy))
                             /\ entry.avg_error
                                    = Percent(Val(analyst_scores[k].avg_absolute_error))
                             /\ entry.composite
                                    = Percent(Val(analyst_scores[k].composite_score))]_vars

\* the instance of the job submitted on the day is in flight
InFlight(job, day) == scheduler[job].instances # <<>> /\ clock.started[job] = day

\* C25: under the scheduler the three stages of one daily cycle run as one
\* ordered unit: the evaluation job of a cycle is never in flight together
\* with that cycle's capture job, nor the recompute job together with that
\* cycle's evaluation job, however long each job runs
C25_CycleStagesNeverOverlap ==
    \A day \in 0..MaxDays :
        /\ ~(InFlight("prediction_snapshot", day) /\ InFlight("outcome_evaluation", day))
        /\ ~(InFlight("outcome_evaluation", day) /\ InFlight("score_recomputation", day))


\* the complete score tables a read can meet: the committed one, and with a
\* recompute transaction open the one it will commit
CompleteTables == {analyst_scores} \cup (IF sessions.recompute.pending THEN {sessions.recompute.table} ELSE {})

\* the entries are the global rows of the table that have a composite_score
ListsGlobalRowsOf(entries, table) ==
    LET global == SelectSeq(table, LAMBDA r : r.ticker = None /\ r.composite_score # None)
    IN  /\ {entries[k].firm : k \in 1..Len(entries)}
               = {global[k].firm : k \in 1..Len(global)}
        /\ \A k \in 1..Len(entries) :
               \E l \in 1..Len(global) :
                   /\ entries[k].firm = global[l].firm
                   /\ entries[k].total_predictions = global[l].total_predictions
                   /\ entries[k].composite = Percent(Val(global[l].composite_score))

BothRunsEnded == \A task \in CaptureTasks : sessions.tasks[task].pc = "done"

\* the run counted the ticker in ok
CountedOk(task, ticker) ==
    \E k \in 1..Len(sessions.tasks[task].ok) : sessions.tasks[task].ok[k] = ticker

\* C24: when the scheduled capture job and a manual run_snapshot have run
\* together for the same date, each on its own session, both have returned
\* their counts, the store holds one analyst row per (ticker, date, firm) and
\* one consensus row per (ticker, date), and every ticker a run counted in
\* ok has its consensus row
C24_ConcurrentCapturesKeepUpsertAtomic ==
    BothRunsEnded =>
        /\ \A task \in CaptureTasks : sessions.tasks[task].outcome.status = "returned"
        /\ UniqueConstraintsHold(CleanSession(analyst_snapshots, consensus_snapshots))
        /\ \A task \in CaptureTasks, ticker \in {"AAPL", "MSFT"} :
               CountedOk(task, ticker) =>
                   \E i \in 1..Len(consensus_snapshots) :
                       consensus_snapshots[i].ticker = ticker

====
